---- MODULE Spec2Model ----
(***************************************************************************)
(* Model of the SQLite MCP server's statement gateway:                     *)
(*   internal/repository/sqlite.go  (classifier, Query, Execute, GetSchema)*)
(*   internal/handlers              (tool handlers and report rendering)   *)
(* Strings that the code inspects character by character (SQL texts, table *)
(* names) are sequences of one-character strings.                          *)
(***************************************************************************)
EXTENDS Integers, Sequences, FiniteSets, Bags, TLC

VARIABLES
    catalog,    \* the engine's sqlite_master: sequence of table records, in rowid order
    rows,       \* the stored rows of table users, in rowid order
    autoinc,    \* sqlite_sequence.seq for users (AUTOINCREMENT high-water mark)
    conn,       \* per-connection counters: last_insert_rowid and changes
    call,       \* the last tool call: request, what reached the engine, what came back
    clsIn,      \* classifier harness: the text handed to isSelectQuery
    clsOut,     \* classifier harness: whether it has returned, and the boolean returned
    inserted,   \* round-trip harness: the literals inserted into users since it was last empty
    fmtIn,      \* report harness: the value handed to a format function
    fmtOut,     \* report harness: whether it has returned, and the report returned
    sqlDB,      \* the connection pool of sql.DB: connections open, and how many of them idle
    me,         \* pool harness: one caller followed step by step through its call
    others      \* pool harness: the other callers, a bag of [pc, held] for those not at rest

vars == <<catalog, rows, autoinc, conn, call, clsIn, clsOut, inserted, fmtIn, fmtOut,
          sqlDB, me, others>>
poolVars == <<sqlDB, me, others>>
serverVars == <<catalog, rows, autoinc, conn, call, clsIn, clsOut, inserted, fmtIn, fmtOut>>
harnessVars == <<clsIn, clsOut, inserted, fmtIn, fmtOut, poolVars>>
dbVars == <<catalog, rows, autoinc>>

\* ---------------------------------------------------------------- bounds
\* longest run of whitespace put before / after a classifier input
MaxLead == 2
MaxTrail == 1
\* largest rowid the engine hands out to table users
MaxRowid == 2
\* most foreign keys of a table handed to the schema report
MaxFks == 2
\* most rows of a result handed to the query report
MaxRows == 12
\* longest statement text handed to sanitizeQuery
MaxText == 103
\* callers using the server at once: two more than the pool has connections
MaxCallers == 27
\* most tables a get_schema call of the pool harness reflects
MaxSchemaTables == 2

\* ------------------------------------------------------------ characters
LowerCase ==
    <<"a","b","c","d","e","f","g","h","i","j","k","l","m",
      "n","o","p","q","r","s","t","u","v","w","x","y","z">>
UpperCase ==
    <<"A","B","C","D","E","F","G","H","I","J","K","L","M",
      "N","O","P","Q","R","S","T","U","V","W","X","Y","Z">>
Digits == {"0","1","2","3","4","5","6","7","8","9"}

\* unicode.IsSpace on the ASCII range (strings.TrimSpace's cut set)
IsSpace(c) == c \in {" ", "\t", "\n", "\r"}

\* unicode.ToUpper on one ASCII character
UpperOf == [c \in {LowerCase[i] : i \in 1..26} |-> UpperCase[CHOOSE i \in 1..26 : LowerCase[i] = c]]
ToUpperCh(c) == IF c \in DOMAIN UpperOf THEN UpperOf[c] ELSE c

\* unicode.ToLower on one ASCII character
LowerOf == [c \in {UpperCase[i] : i \in 1..26} |-> LowerCase[CHOOSE i \in 1..26 : UpperCase[i] = c]]
ToLowerCh(c) == IF c \in DOMAIN LowerOf THEN LowerOf[c] ELSE c

\* strings.ToUpper
ToUpper(s) == [i \in 1..Len(s) |-> ToUpperCh(s[i])]

RECURSIVE TrimLeft(_)
TrimLeft(s) ==
    IF s # <<>> /\ IsSpace(Head(s)) THEN TrimLeft(Tail(s)) ELSE s

RECURSIVE TrimRight(_)
TrimRight(s) ==
    IF s # <<>> /\ IsSpace(s[Len(s)]) THEN TrimRight(SubSeq(s, 1, Len(s) - 1)) ELSE s

\* strings.TrimSpace
TrimSpace(s) == TrimRight(TrimLeft(s))

\* strings.HasPrefix
HasPrefix(s, prefix) ==
    Len(s) >= Len(prefix) /\ SubSeq(s, 1, Len(prefix)) = prefix

\* 'SELECT'
KwSelect ==
    <<"S","E","L","E","C","T">>
\* 'WITH'
KwWith ==
    <<"W","I","T","H">>
\* 'EXPLAIN'
KwExplain ==
    <<"E","X","P","L","A","I","N">>

\* isSelectQuery without the TrimSpace call (mutant)
isSelectQuery_NoTrim(query) ==
    LET upper == ToUpper(query)
    IN  HasPrefix(upper, KwSelect) \/ HasPrefix(upper, KwWith) \/ HasPrefix(upper, KwExplain)

\* isSelectQuery
isSelectQuery(query) ==
    LET trimmed == TrimSpace(ToUpper(query))
    IN  \/ HasPrefix(trimmed, KwSelect)
        \/ HasPrefix(trimmed, KwWith)
        \/ HasPrefix(trimmed, KwExplain)

\* ------------------------------------------------------------- SQL texts
\* The statements the tools are called with, as character sequences.
\* 'SELECT * FROM users'
T_SelectAll ==
    <<"S","E","L","E","C","T"," ","*"," ","F","R","O","M"," ","u","s","e","r","s">>
\* '  select id, name from users\n'
T_SelectLower ==
    <<" "," ","s","e","l","e","c","t"," ","i","d",","," ","n","a","m","e"," ","f","r","o","m"," ","u","s","e","r","s","\n">>
\* 'SELECT 1 AS x, 2 AS x'
T_SelectDup ==
    <<"S","E","L","E","C","T"," ","1"," ","A","S"," ","x",","," ","2"," ","A","S"," ","x">>
\* "WITH c(n) AS (SELECT 'w') INSERT INTO users (name) SELECT n FROM c"
T_WithInsert ==
    <<"W","I","T","H"," ","c","(","n",")"," ","A","S"," ","(","S","E","L","E","C","T"," ","'","w","'",")"," ","I","N","S","E","R","T"," ","I","N","T","O"," ","u","s","e","r","s"," ","(","n","a","m","e",")"," ","S","E","L","E","C","T"," ","n"," ","F","R","O","M"," ","c">>
\* 'EXPLAIN SELECT 1'
T_Explain ==
    <<"E","X","P","L","A","I","N"," ","S","E","L","E","C","T"," ","1">>
\* 'SELECT * FROM missing'
T_SelectMissing ==
    <<"S","E","L","E","C","T"," ","*"," ","F","R","O","M"," ","m","i","s","s","i","n","g">>
\* 'SELECT FROM'
T_SelectSyntax ==
    <<"S","E","L","E","C","T"," ","F","R","O","M">>
\* 'SELECT id FROM users WHERE abs(-9223372036854775806 - id) > 0'
T_SelectOverflow ==
    <<"S","E","L","E","C","T"," ","i","d"," ","F","R","O","M"," ","u","s","e","r","s"," ","W","H","E","R","E"," ","a","b","s","(","-","9","2","2","3","3","7","2","0","3","6","8","5","4","7","7","5","8","0","6"," ","-"," ","i","d",")"," ",">"," ","0">>
\* "INSERT INTO users (name, email) VALUES ('a', 'a@x')"
T_InsertA ==
    <<"I","N","S","E","R","T"," ","I","N","T","O"," ","u","s","e","r","s"," ","(","n","a","m","e",","," ","e","m","a","i","l",")"," ","V","A","L","U","E","S"," ","(","'","a","'",","," ","'","a","@","x","'",")">>
\* "INSERT INTO users (name) VALUES ('b')"
T_InsertB ==
    <<"I","N","S","E","R","T"," ","I","N","T","O"," ","u","s","e","r","s"," ","(","n","a","m","e",")"," ","V","A","L","U","E","S"," ","(","'","b","'",")">>
\* "INSERT INTO users (id, name) VALUES (-1, 'n')"
T_InsertNeg ==
    <<"I","N","S","E","R","T"," ","I","N","T","O"," ","u","s","e","r","s"," ","(","i","d",","," ","n","a","m","e",")"," ","V","A","L","U","E","S"," ","(","-","1",","," ","'","n","'",")">>
\* "UPDATE users SET name = 'a'"
T_Update ==
    <<"U","P","D","A","T","E"," ","u","s","e","r","s"," ","S","E","T"," ","n","a","m","e"," ","="," ","'","a","'">>
\* 'DELETE FROM users'
T_Delete ==
    <<"D","E","L","E","T","E"," ","F","R","O","M"," ","u","s","e","r","s">>
\* 'CREATE TABLE users (id INTEGER PRIMARY KEY AUTOINCREMENT, name TEXT NOT NULL, email TEXT UNIQUE)'
T_CreateUsers ==
    <<"C","R","E","A","T","E"," ","T","A","B","L","E"," ","u","s","e","r","s"," ","(","i","d"," ","I","N","T","E","G","E","R"," ","P","R","I","M","A","R","Y"," ","K","E","Y"," ","A","U","T","O","I","N","C","R","E","M","E","N","T",","," ","n","a","m","e"," ","T","E","X","T"," ","N","O","T"," ","N","U","L","L",","," ","e","m","a","i","l"," ","T","E","X","T"," ","U","N","I","Q","U","E",")">>
\* 'CREATE TABLE orders (id INTEGER PRIMARY KEY, user_id INTEGER, FOREIGN KEY (user_id) REFERENCES users(id))'
T_CreateOrders ==
    <<"C","R","E","A","T","E"," ","T","A","B","L","E"," ","o","r","d","e","r","s"," ","(","i","d"," ","I","N","T","E","G","E","R"," ","P","R","I","M","A","R","Y"," ","K","E","Y",","," ","u","s","e","r","_","i","d"," ","I","N","T","E","G","E","R",","," ","F","O","R","E","I","G","N"," ","K","E","Y"," ","(","u","s","e","r","_","i","d",")"," ","R","E","F","E","R","E","N","C","E","S"," ","u","s","e","r","s","(","i","d",")",")">>
\* 'CREATE TABLE "order items" (id INTEGER PRIMARY KEY, qty INTEGER DEFAULT 1)'
T_CreateOrderItems ==
    <<"C","R","E","A","T","E"," ","T","A","B","L","E"," ","\"","o","r","d","e","r"," ","i","t","e","m","s","\""," ","(","i","d"," ","I","N","T","E","G","E","R"," ","P","R","I","M","A","R","Y"," ","K","E","Y",","," ","q","t","y"," ","I","N","T","E","G","E","R"," ","D","E","F","A","U","L","T"," ","1",")">>
\* 'CREATE TABLE sqlitedata (k TEXT, v TEXT)'
T_CreateSqlitedata ==
    <<"C","R","E","A","T","E"," ","T","A","B","L","E"," ","s","q","l","i","t","e","d","a","t","a"," ","(","k"," ","T","E","X","T",","," ","v"," ","T","E","X","T",")">>
\* 'DROP TABLE orders'
T_DropOrders ==
    <<"D","R","O","P"," ","T","A","B","L","E"," ","o","r","d","e","r","s">>
\* "INSERT INTO missing (name) VALUES ('t')"
T_InsertMissing ==
    <<"I","N","S","E","R","T"," ","I","N","T","O"," ","m","i","s","s","i","n","g"," ","(","n","a","m","e",")"," ","V","A","L","U","E","S"," ","(","'","t","'",")">>
\* "INSERT INTO users (name) VALUES ('w'); INSERT INTO missing (name) VALUES ('t')"
T_InsertThenBad ==
    <<"I","N","S","E","R","T"," ","I","N","T","O"," ","u","s","e","r","s"," ","(","n","a","m","e",")"," ","V","A","L","U","E","S"," ","(","'","w","'",")",";"," ","I","N","S","E","R","T"," ","I","N","T","O"," ","m","i","s","s","i","n","g"," ","(","n","a","m","e",")"," ","V","A","L","U","E","S"," ","(","'","t","'",")">>
\* ''
T_Empty ==
    <<>>

SqlTexts ==
    { T_SelectAll, T_SelectLower, T_SelectDup, T_WithInsert, T_Explain,
      T_SelectMissing, T_SelectSyntax, T_SelectOverflow,
      T_InsertA, T_Update, T_Delete,
      T_CreateUsers, T_CreateOrders, T_CreateOrderItems, T_CreateSqlitedata,
      T_DropOrders, T_InsertMissing, T_InsertThenBad, T_Empty }

\* table and index names, and the patterns the code matches names against
\* 'users'
N_users ==
    <<"u","s","e","r","s">>
\* 'orders'
N_orders ==
    <<"o","r","d","e","r","s">>
\* 'order items'
N_order_items ==
    <<"o","r","d","e","r"," ","i","t","e","m","s">>
\* 'sqlitedata'
N_sqlitedata ==
    <<"s","q","l","i","t","e","d","a","t","a">>
\* 'sqlite_sequence'
N_sqlite_sequence ==
    <<"s","q","l","i","t","e","_","s","e","q","u","e","n","c","e">>
\* 'missing'
N_missing ==
    <<"m","i","s","s","i","n","g">>
\* 'sqlite_%'
PatInternal ==
    <<"s","q","l","i","t","e","_","%">>
\* 'sqlite_autoindex'
PfxAutoindex ==
    <<"s","q","l","i","t","e","_","a","u","t","o","i","n","d","e","x">>
\* 'sqlite_'
PfxReserved ==
    <<"s","q","l","i","t","e","_">>
\* 'sqlite_autoindex_users_1'
N_autoindex_users_1 ==
    <<"s","q","l","i","t","e","_","a","u","t","o","i","n","d","e","x","_","u","s","e","r","s","_","1">>
\* '...'
Ellipsis ==
    <<".",".",".">>

\* texts and names of the schema harness
\* "CREATE INDEX idx_users_email ON users(email)"
T_CreateIndexEmail ==
    <<"C","R","E","A","T","E"," ","I","N","D","E","X"," ","i","d","x","_","u","s","e","r","s","_","e","m","a","i","l"," ","O","N"," ","u","s","e","r","s","(","e","m","a","i","l",")">>
\* "CREATE INDEX idx_users_name ON users(name)"
T_CreateIndexName ==
    <<"C","R","E","A","T","E"," ","I","N","D","E","X"," ","i","d","x","_","u","s","e","r","s","_","n","a","m","e"," ","O","N"," ","u","s","e","r","s","(","n","a","m","e",")">>
\* "CREATE INDEX sqlite_autoindex_mine ON users(name)"
T_CreateIndexReserved ==
    <<"C","R","E","A","T","E"," ","I","N","D","E","X"," ","s","q","l","i","t","e","_","a","u","t","o","i","n","d","e","x","_","m","i","n","e"," ","O","N"," ","u","s","e","r","s","(","n","a","m","e",")">>
\* "CREATE TABLE order_lines (order_id INTEGER, line_no INTEGER, user_id INTEGER, note TEXT NOT NULL, PRIMARY KEY (order_id, line_no), FOREIGN KEY (order_id, user_id) REFERENCES orders(id, user_id) ON DELETE CASCADE)"
T_CreateOrderLines ==
    <<"C","R","E","A","T","E"," ","T","A","B","L","E"," ","o","r","d","e","r","_","l","i","n","e","s"," ","(","o","r","d","e","r","_","i","d"," ","I","N","T","E","G","E","R",","," ","l","i","n","e","_","n","o"," ","I","N","T","E","G","E","R",","," ","u","s","e","r","_","i","d"," ","I","N","T","E","G","E","R",","," ","n","o","t","e"," ","T","E","X","T"," ","N","O","T"," ","N","U","L","L",","," ","P","R","I","M","A","R","Y"," ","K","E","Y"," ","(","o","r","d","e","r","_","i","d",","," ","l","i","n","e","_","n","o",")",","," ","F","O","R","E","I","G","N"," ","K","E","Y"," ","(","o","r","d","e","r","_","i","d",","," ","u","s","e","r","_","i","d",")"," ","R","E","F","E","R","E","N","C","E","S"," ","o","r","d","e","r","s","(","i","d",","," ","u","s","e","r","_","i","d",")"," ","O","N"," ","D","E","L","E","T","E"," ","C","A","S","C","A","D","E",")">>
\* "CREATE TABLE notes (id INTEGER PRIMARY KEY, user_id INTEGER REFERENCES users)"
T_CreateNotes ==
    <<"C","R","E","A","T","E"," ","T","A","B","L","E"," ","n","o","t","e","s"," ","(","i","d"," ","I","N","T","E","G","E","R"," ","P","R","I","M","A","R","Y"," ","K","E","Y",","," ","u","s","e","r","_","i","d"," ","I","N","T","E","G","E","R"," ","R","E","F","E","R","E","N","C","E","S"," ","u","s","e","r","s",")">>
\* "order_lines"
N_order_lines ==
    <<"o","r","d","e","r","_","l","i","n","e","s">>
\* "notes"
N_notes ==
    <<"n","o","t","e","s">>
\* "idx_users_email"
N_idx_users_email ==
    <<"i","d","x","_","u","s","e","r","s","_","e","m","a","i","l">>
\* "idx_users_name"
N_idx_users_name ==
    <<"i","d","x","_","u","s","e","r","s","_","n","a","m","e">>
\* "sqlite_autoindex_mine"
N_autoindex_mine ==
    <<"s","q","l","i","t","e","_","a","u","t","o","i","n","d","e","x","_","m","i","n","e">>
\* "sqlite_autoindex_order_lines_1"
N_autoindex_order_lines_1 ==
    <<"s","q","l","i","t","e","_","a","u","t","o","i","n","d","e","x","_","o","r","d","e","r","_","l","i","n","e","s","_","1">>

\* ------------------------------------------------------- the storage engine
\* SQLite behind database/sql and the go-sqlite3 driver, as far as the calls
\* of sqlite.go exercise it.  Values are tagged scalars; NULL is its own tag.
IntV(n) == [k |-> "int", v |-> n]
TextV(s) == [k |-> "text", v |-> s]
NullV == [k |-> "null"]
NoErr == "nil"

NullString == [Valid |-> FALSE, String |-> ""]
Default(s) == [Valid |-> TRUE, String |-> s]
\* a text cell of a PRAGMA row that is not NULL
Str(s) == [Valid |-> TRUE, String |-> s]
Column(cid, name, type, notnull, dflt, pk) ==
    [cid |-> cid, name |-> name, type |-> type, notnull |-> notnull,
     dflt_value |-> dflt, pk |-> pk]

\* the table definitions the CREATE TABLE texts declare
UsersDef ==
    [name |-> N_users, autoincrement |-> TRUE,
     columns |-> << Column(0, "id", "INTEGER", 0, NullString, 1),
                    Column(1, "name", "TEXT", 1, NullString, 0),
                    Column(2, "email", "TEXT", 0, NullString, 0) >>,
     indexes |-> << [seq |-> 0, name |-> N_autoindex_users_1, unique |-> 1,
                     origin |-> "u", partial |-> 0] >>,
     fks |-> <<>>]
OrdersDef ==
    [name |-> N_orders, autoincrement |-> FALSE,
     columns |-> << Column(0, "id", "INTEGER", 0, NullString, 1),
                    Column(1, "user_id", "INTEGER", 0, NullString, 0) >>,
     indexes |-> <<>>,
     fks |-> << [id |-> 0, seq |-> 0, table |-> "users", from |-> "user_id",
                 to |-> Str("id"), on_update |-> "NO ACTION", on_delete |-> "NO ACTION",
                 match |-> "NONE"] >>]
OrderItemsDef ==
    [name |-> N_order_items, autoincrement |-> FALSE,
     columns |-> << Column(0, "id", "INTEGER", 0, NullString, 1),
                    Column(1, "qty", "INTEGER", 0, Default("1"), 0) >>,
     indexes |-> <<>>, fks |-> <<>>]
SqlitedataDef ==
    [name |-> N_sqlitedata, autoincrement |-> FALSE,
     columns |-> << Column(0, "k", "TEXT", 0, NullString, 0),
                    Column(1, "v", "TEXT", 0, NullString, 0) >>,
     indexes |-> <<>>, fks |-> <<>>]
\* composite primary key and composite foreign key
OrderLinesDef ==
    [name |-> N_order_lines, autoincrement |-> FALSE,
     columns |-> << Column(0, "order_id", "INTEGER", 0, NullString, 1),
                    Column(1, "line_no", "INTEGER", 0, NullString, 2),
                    Column(2, "user_id", "INTEGER", 0, NullString, 0),
                    Column(3, "note", "TEXT", 1, NullString, 0) >>,
     indexes |-> << [seq |-> 0, name |-> N_autoindex_order_lines_1, unique |-> 1,
                     origin |-> "pk", partial |-> 0] >>,
     fks |-> << [id |-> 0, seq |-> 0, table |-> "orders", from |-> "order_id",
                 to |-> Str("id"), on_update |-> "NO ACTION", on_delete |-> "CASCADE",
                 match |-> "NONE"],
                [id |-> 0, seq |-> 1, table |-> "orders", from |-> "user_id",
                 to |-> Str("user_id"), on_update |-> "NO ACTION", on_delete |-> "CASCADE",
                 match |-> "NONE"] >>]
\* a foreign key that names no parent column: the catalog row's "to" is NULL
NotesDef ==
    [name |-> N_notes, autoincrement |-> FALSE,
     columns |-> << Column(0, "id", "INTEGER", 0, NullString, 1),
                    Column(1, "user_id", "INTEGER", 0, NullString, 0) >>,
     indexes |-> <<>>,
     fks |-> << [id |-> 0, seq |-> 0, table |-> "users", from |-> "user_id",
                 to |-> NullString, on_update |-> "NO ACTION", on_delete |-> "NO ACTION",
                 match |-> "NONE"] >>]
\* created by the engine itself with the first AUTOINCREMENT table
SqliteSequenceDef ==
    [name |-> N_sqlite_sequence, autoincrement |-> FALSE,
     columns |-> << Column(0, "name", "", 0, NullString, 0),
                    Column(1, "seq", "", 0, NullString, 0) >>,
     indexes |-> <<>>, fks |-> <<>>]

\* names starting with sqlite_ are reserved for the engine's own tables
IsInternalName(name) == HasPrefix([i \in 1..Len(name) |-> ToLowerCh(name[i])], PfxReserved)

NameStr(name) ==
    CASE name = N_users -> "users"
      [] name = N_orders -> "orders"
      [] name = N_order_items -> "order items"
      [] name = N_sqlitedata -> "sqlitedata"
      [] name = N_sqlite_sequence -> "sqlite_sequence"
      [] name = N_missing -> "missing"
      [] name = N_order_lines -> "order_lines"
      [] name = N_notes -> "notes"
      [] name = N_idx_users_email -> "idx_users_email"
      [] name = N_idx_users_name -> "idx_users_name"
      [] name = N_autoindex_mine -> "sqlite_autoindex_mine"

Stmt(kind, table, arg) == [kind |-> kind, table |-> table, arg |-> arg]

\* what the engine's parser makes of each text: its statements, in order
EngineParse(text) ==
    CASE text = T_SelectAll ->
            << Stmt("select", N_users, [cols |-> <<"id", "name", "email">>, where |-> "none"]) >>
      [] text = T_SelectLower ->
            << Stmt("select", N_users, [cols |-> <<"id", "name">>, where |-> "none"]) >>
      [] text = T_SelectOverflow ->
            << Stmt("select", N_users, [cols |-> <<"id">>, where |-> "abs"]) >>
      [] text = T_SelectMissing ->
            << Stmt("select", N_missing, [cols |-> <<>>, where |-> "none"]) >>
      [] text = T_SelectDup ->
            << Stmt("values", <<>>, [cols |-> <<"x", "x">>, row |-> <<IntV(1), IntV(2)>>]) >>
      [] text = T_Explain -> << Stmt("explain", <<>>, <<>>) >>
      [] text = T_SelectSyntax -> << Stmt("syntax", <<>>, "near \"FROM\": syntax error") >>
      [] text = T_WithInsert ->
            << Stmt("insert", N_users, [name |-> TextV("w"), email |-> NullV]) >>
      [] text = T_InsertA ->
            << Stmt("insert", N_users, [name |-> TextV("a"), email |-> TextV("a@x")]) >>
      [] text = T_InsertB ->
            << Stmt("insert", N_users, [name |-> TextV("b"), email |-> NullV]) >>
      [] text = T_InsertNeg ->
            << Stmt("insert_rowid", N_users,
                    [id |-> IntV(-1), name |-> TextV("n"), email |-> NullV]) >>
      [] text = T_InsertMissing ->
            << Stmt("insert", N_missing, [name |-> TextV("t"), email |-> NullV]) >>
      [] text = T_InsertThenBad ->
            << Stmt("insert", N_users, [name |-> TextV("w"), email |-> NullV]),
               Stmt("insert", N_missing, [name |-> TextV("t"), email |-> NullV]) >>
      [] text = T_Update -> << Stmt("update", N_users, TextV("a")) >>
      [] text = T_Delete -> << Stmt("delete", N_users, <<>>) >>
      [] text = T_CreateUsers -> << Stmt("create", N_users, UsersDef) >>
      [] text = T_CreateOrders -> << Stmt("create", N_orders, OrdersDef) >>
      [] text = T_CreateOrderItems -> << Stmt("create", N_order_items, OrderItemsDef) >>
      [] text = T_CreateSqlitedata -> << Stmt("create", N_sqlitedata, SqlitedataDef) >>
      [] text = T_CreateOrderLines -> << Stmt("create", N_order_lines, OrderLinesDef) >>
      [] text = T_CreateNotes -> << Stmt("create", N_notes, NotesDef) >>
      [] text = T_CreateIndexEmail -> << Stmt("create_index", N_users, N_idx_users_email) >>
      [] text = T_CreateIndexName -> << Stmt("create_index", N_users, N_idx_users_name) >>
      [] text = T_CreateIndexReserved -> << Stmt("create_index", N_users, N_autoindex_mine) >>
      [] text = T_DropOrders -> << Stmt("drop", N_orders, <<>>) >>
      [] text = T_Empty -> <<>>

HasTable(db, name) == \E i \in 1..Len(db.catalog) : db.catalog[i].name = name
HasIndex(db, name) ==
    \E i \in 1..Len(db.catalog) :
        \E j \in 1..Len(db.catalog[i].indexes) : db.catalog[i].indexes[j].name = name

\* sqlite3_prepare: the error it raises for the statement, or NoErr
Prepare(db, st) ==
    CASE st.kind = "syntax" -> st.arg
      [] st.kind \in {"select", "insert", "insert_rowid", "update", "delete", "drop"} ->
            IF HasTable(db, st.table) THEN NoErr
            ELSE "no such table: " \o NameStr(st.table)
      [] st.kind = "create_index" ->
            IF IsInternalName(st.arg)
            THEN "object name reserved for internal use: " \o NameStr(st.arg)
            ELSE IF HasIndex(db, st.arg)
            THEN "index " \o NameStr(st.arg) \o " already exists"
            ELSE IF ~HasTable(db, st.table)
            THEN "no such table: main." \o NameStr(st.table)
            ELSE NoErr
      [] st.kind = "create" ->
            IF HasTable(db, st.table)
            THEN "table " \o NameStr(st.table) \o " already exists"
            ELSE NoErr
      [] OTHER -> NoErr

ExplainColumns == <<"addr", "opcode", "p1", "p2", "p3", "p4", "p5", "comment">>
ExplainListing ==
    << <<IntV(0), TextV("Init"), IntV(0), IntV(4), IntV(0), NullV, IntV(0), NullV>>,
       <<IntV(1), TextV("Integer"), IntV(1), IntV(1), IntV(0), NullV, IntV(0), NullV>>,
       <<IntV(2), TextV("ResultRow"), IntV(1), IntV(1), IntV(0), NullV, IntV(0), NullV>>,
       <<IntV(3), TextV("Halt"), IntV(0), IntV(0), IntV(0), NullV, IntV(0), NullV>>,
       <<IntV(4), TextV("Goto"), IntV(0), IntV(1), IntV(0), NullV, IntV(0), NullV>> >>

Stepped(db, cn, columns, out, err) ==
    [db |-> db, conn |-> cn, columns |-> columns, out |-> out, err |-> err]

\* sqlite3_step repeated until SQLITE_DONE or an error: the statement run to
\* its end on one connection, with the rows it yields on the way
Step(db, cn, st) ==
    CASE st.kind = "select" ->
            LET proj(r) == [j \in 1..Len(st.arg.cols) |-> r[st.arg.cols[j]]]
                \* abs(-9223372036854775806 - id) overflows on the row whose id is 2
                bad == {i \in 1..Len(db.rows) : db.rows[i].id = IntV(2)}
                stop == IF st.arg.where = "abs" /\ bad # {}
                        THEN (CHOOSE i \in bad : \A j \in bad : i <= j) - 1
                        ELSE Len(db.rows)
            IN  Stepped(db, cn, st.arg.cols,
                        [i \in 1..stop |-> proj(db.rows[i])],
                        IF stop < Len(db.rows) THEN "integer overflow" ELSE NoErr)
      [] st.kind = "values" -> Stepped(db, cn, st.arg.cols, <<st.arg.row>>, NoErr)
      [] st.kind = "explain" -> Stepped(db, cn, ExplainColumns, ExplainListing, NoErr)
      [] st.kind = "insert" ->
            IF st.arg.email # NullV /\ \E i \in 1..Len(db.rows) : db.rows[i].email = st.arg.email
            THEN Stepped(db, cn, <<>>, <<>>, "UNIQUE constraint failed: users.email")
            ELSE LET id == db.autoinc + 1
                 IN  Stepped([db EXCEPT !.rows = Append(@, [id |-> IntV(id), name |-> st.arg.name,
                                                           email |-> st.arg.email]),
                                        !.autoinc = id],
                             [lastRowid |-> id, changes |-> 1], <<>>, <<>>, NoErr)
      [] st.kind = "insert_rowid" ->
            \* the row takes the rowid the statement names; rows stay in rowid
            \* order and the AUTOINCREMENT mark only moves up
            IF \E i \in 1..Len(db.rows) : db.rows[i].id = st.arg.id
            THEN Stepped(db, cn, <<>>, <<>>, "UNIQUE constraint failed: users.id")
            ELSE LET below == SelectSeq(db.rows, LAMBDA r : r.id.v < st.arg.id.v)
                     above == SelectSeq(db.rows, LAMBDA r : r.id.v > st.arg.id.v)
                 IN  Stepped([db EXCEPT !.rows = (below \o <<st.arg>>) \o above,
                                        !.autoinc = IF st.arg.id.v > @ THEN st.arg.id.v ELSE @],
                             [lastRowid |-> st.arg.id.v, changes |-> 1], <<>>, <<>>, NoErr)
      [] st.kind = "update" ->
            Stepped([db EXCEPT !.rows = [i \in 1..Len(db.rows) |-> [db.rows[i] EXCEPT !.name = st.arg]]],
                    [cn EXCEPT !.changes = Len(db.rows)], <<>>, <<>>, NoErr)
      [] st.kind = "delete" ->
            Stepped([db EXCEPT !.rows = <<>>],
                    [cn EXCEPT !.changes = Len(db.rows)], <<>>, <<>>, NoErr)
      [] st.kind = "create" ->
            LET seqTable == IF st.arg.autoincrement /\ ~HasTable(db, N_sqlite_sequence)
                            THEN <<SqliteSequenceDef>> ELSE <<>>
            IN  Stepped([db EXCEPT !.catalog = (@ \o <<st.arg>>) \o seqTable],
                        cn, <<>>, <<>>, NoErr)
      [] st.kind = "create_index" ->
            \* the new index goes to the head of the table's index list and the
            \* list is numbered anew
            LET add(t) ==
                    LET list == << [seq |-> 0, name |-> st.arg, unique |-> 0,
                                    origin |-> "c", partial |-> 0] >> \o t.indexes
                    IN  [t EXCEPT !.indexes = [i \in 1..Len(list) |->
                                                  [list[i] EXCEPT !.seq = i - 1]]]
            IN  Stepped([db EXCEPT !.catalog = [i \in 1..Len(@) |->
                                    IF @[i].name = st.table THEN add(@[i]) ELSE @[i]]],
                        cn, <<>>, <<>>, NoErr)
      [] st.kind = "drop" ->
            Stepped([db EXCEPT !.catalog = SelectSeq(@, LAMBDA t : t.name # st.table)],
                    cn, <<>>, <<>>, NoErr)

\* driver exec loop (db.Exec): prepare and run each statement of the text in
\* turn; the first error ends the loop, earlier statements stay committed
RECURSIVE ExecFrom(_, _, _, _)
ExecFrom(db, cn, stmts, res) ==
    IF stmts = <<>> THEN [db |-> db, conn |-> cn, err |-> NoErr, res |-> res]
    ELSE LET p == Prepare(db, Head(stmts))
         IN  IF p # NoErr THEN [db |-> db, conn |-> cn, err |-> p, res |-> res]
             ELSE LET s == Step(db, cn, Head(stmts))
                  IN  IF s.err # NoErr
                      THEN [db |-> s.db, conn |-> s.conn, err |-> s.err, res |-> res]
                      ELSE ExecFrom(s.db, s.conn, Tail(stmts),
                                    [id |-> s.conn.lastRowid, changes |-> s.conn.changes])
EngineExec(db, cn, text) ==
    ExecFrom(db, cn, EngineParse(text), [id |-> 0, changes |-> 0])

\* driver query loop (db.Query) followed by the caller's rows.Next() loop:
\* every statement is prepared, only the last one is stepped
RECURSIVE QueryFrom(_, _, _)
QueryFrom(db, cn, stmts) ==
    IF stmts = <<>> THEN [openErr |-> NoErr] @@ Stepped(db, cn, <<>>, <<>>, NoErr)
    ELSE LET p == Prepare(db, Head(stmts))
         IN  IF p # NoErr THEN [openErr |-> p] @@ Stepped(db, cn, <<>>, <<>>, NoErr)
             ELSE IF Len(stmts) = 1 THEN [openErr |-> NoErr] @@ Step(db, cn, Head(stmts))
             ELSE QueryFrom(db, cn, Tail(stmts))
EngineQuery(db, cn, text) == QueryFrom(db, cn, EngineParse(text))

\* SQL LIKE: % matches any run of characters, _ matches any one character,
\* letters match without regard to case
RECURSIVE Like(_, _)
Like(pat, s) ==
    IF pat = <<>> THEN s = <<>>
    ELSE IF Head(pat) = "%" THEN Like(Tail(pat), s) \/ (s # <<>> /\ Like(pat, Tail(s)))
    ELSE IF s = <<>> THEN FALSE
    ELSE IF Head(pat) = "_" THEN Like(Tail(pat), Tail(s))
    ELSE ToUpperCh(Head(pat)) = ToUpperCh(Head(s)) /\ Like(Tail(pat), Tail(s))

\* a PRAGMA argument spliced in without quotes parses only as a bare identifier
IsBareIdentifier(name) ==
    /\ name # <<>>
    /\ \A i \in 1..Len(name) :
          \/ \E j \in 1..26 : name[i] \in {LowerCase[j], UpperCase[j]}
          \/ name[i] = "_"
          \/ (i > 1 /\ name[i] \in Digits)

\* PRAGMA table_info / index_list / foreign_key_list (<arg>): the catalog rows
\* of the named table; no rows for an unknown table; a syntax error when the
\* argument does not parse
EnginePragma(db, field, arg) ==
    IF ~IsBareIdentifier(arg) THEN [err |-> "near \"" \o NameStr(arg) \o "\": syntax error", out |-> <<>>]
    ELSE IF ~HasTable(db, arg) THEN [err |-> NoErr, out |-> <<>>]
    ELSE LET t == db.catalog[CHOOSE i \in 1..Len(db.catalog) : db.catalog[i].name = arg]
         IN  [err |-> NoErr, out |-> t[field]]

\* ------------------------------------------- repository (SQLiteDB, sqlite.go)
LogLine(level, format, arg) == [level |-> level, format |-> format, arg |-> arg]

\* sanitizeQuery keeping the first 100 characters ahead of the marker (mutant)
sanitizeQuery_KeepHundred(query) ==
    IF Len(query) > 100 THEN SubSeq(query, 1, 100) \o Ellipsis ELSE query
\* sanitizeQuery
sanitizeQuery(query) ==
    IF Len(query) > 100 THEN SubSeq(query, 1, 97) \o Ellipsis ELSE query

NilResult == [some |-> FALSE]
PolicyQueryErr == "only SELECT queries are allowed for query operations"
PolicyExecuteErr == "SELECT queries should use the query operation instead"

\* what passed between a repository method and the engine during one call:
\* the statements submitted with the error each submission returned, every
\* error text the engine raised, and the rows the cursor yielded
Engine(submitted, raw, out) == [submitted |-> submitted, raw |-> raw, out |-> out]
Submission(sql, err) == [sql |-> sql, err |-> err]
NoEngine == Engine(<<>>, <<>>, <<>>)

\* what a repository method hands back, with what it did on the way
Returned(result, err, engine, db, cn, log) ==
    [result |-> result, err |-> err, engine |-> engine,
     db |-> db, conn |-> cn, log |-> log]

\* Query's error for a failed db.Query, built from the engine's error (mutant:
\* the engine's error handed on as it is)
QueryFailedErr_Raw(engineErr) == engineErr
\* Query's error for a failed db.Query
QueryFailedErr(engineErr) == "query execution failed"

\* the row map with every column given the first value of the row (mutant)
RowMap_FirstValue(columns, values) ==
    [c \in {columns[i] : i \in 1..Len(columns)} |-> values[1]]

\* the row map of Query's scan loop: row[col] = values[i], in column order,
\* so a later column of the same name overwrites an earlier one
RowMap(columns, values) ==
    [c \in {columns[i] : i \in 1..Len(columns)} |->
        values[CHOOSE i \in 1..Len(columns) :
                  columns[i] = c /\ \A j \in (i + 1)..Len(columns) : columns[j] # c]]

\* the QueryResult literal with Count taken from the column list (mutant)
NewQueryResult_CountColumns(columns, results) ==
    [some |-> TRUE, Columns |-> columns, Rows |-> results, Count |-> Len(columns)]
\* the QueryResult literal
NewQueryResult(columns, results) ==
    [some |-> TRUE, Columns |-> columns, Rows |-> results, Count |-> Len(results)]

\* Query's guard dropped (mutant)
QueryAllowed_Always(sqlQuery) == TRUE
\* Query's guard: !isSelectQuery(sqlQuery) returns the policy error
QueryAllowed(sqlQuery) == isSelectQuery(sqlQuery)

\* SQLiteDB.Query
Query(db, cn, sqlQuery) ==
    LET debug == <<LogLine("debug", "Executing query: %s", sanitizeQuery(sqlQuery))>>
    IN  IF ~QueryAllowed(sqlQuery)
        THEN Returned(NilResult, PolicyQueryErr, NoEngine, db, cn, debug)
        ELSE LET e == EngineQuery(db, cn, sqlQuery)
             IN  IF e.openErr # NoErr
                 THEN Returned(NilResult, QueryFailedErr(e.openErr),
                               Engine(<<Submission(sqlQuery, e.openErr)>>, <<e.openErr>>, <<>>),
                               e.db, e.conn,
                               debug \o <<LogLine("error", "Query execution failed: %v", e.openErr)>>)
                 ELSE LET columns == e.columns
                          \* rows.Next() ends the loop on EOF and on an error alike
                          results == [i \in 1..Len(e.out) |-> RowMap(columns, e.out[i])]
                      IN  Returned(NewQueryResult(columns, results), NoErr,
                                   Engine(<<Submission(sqlQuery, NoErr)>>,
                                          IF e.err # NoErr THEN <<e.err>> ELSE <<>>, e.out),
                                   e.db, e.conn,
                                   debug \o <<LogLine("info",
                                       "Query executed successfully, rows_returned: %d",
                                       Len(results))>>)

\* Execute's guard dropped (mutant)
ExecuteAllowed_Always(sqlQuery) == TRUE
\* Execute's guard: isSelectQuery(sqlQuery) returns the policy error
ExecuteAllowed(sqlQuery) == ~isSelectQuery(sqlQuery)

\* the ExecuteResult literal with the two counters exchanged (mutant)
NewExecuteResult_Swapped(rowsAffected, lastInsertId) ==
    [some |-> TRUE, RowsAffected |-> lastInsertId, LastInsertId |-> rowsAffected,
     Message |-> [format |-> "Statement executed successfully, %d rows affected",
                  arg |-> rowsAffected]]
\* the ExecuteResult literal
NewExecuteResult(rowsAffected, lastInsertId) ==
    [some |-> TRUE, RowsAffected |-> rowsAffected, LastInsertId |-> lastInsertId,
     Message |-> [format |-> "Statement executed successfully, %d rows affected",
                  arg |-> rowsAffected]]

\* SQLiteDB.Execute
Execute(db, cn, sqlQuery) ==
    LET debug == <<LogLine("debug", "Executing statement: %s", sanitizeQuery(sqlQuery))>>
    IN  IF ~ExecuteAllowed(sqlQuery)
        THEN Returned(NilResult, PolicyExecuteErr, NoEngine, db, cn, debug)
        ELSE LET e == EngineExec(db, cn, sqlQuery)
             IN  IF e.err # NoErr
                 THEN Returned(NilResult, "statement execution failed",
                               Engine(<<Submission(sqlQuery, e.err)>>, <<e.err>>, <<>>),
                               e.db, e.conn,
                               debug \o <<LogLine("error", "Statement execution failed: %v", e.err)>>)
                 ELSE LET rowsAffected == e.res.changes
                          lastInsertId == e.res.id
                      IN  Returned(NewExecuteResult(rowsAffected, lastInsertId),
                                   NoErr, Engine(<<Submission(sqlQuery, NoErr)>>, <<>>, <<>>),
                                   e.db, e.conn,
                                   debug \o <<LogLine("info",
                                       "Statement executed successfully, rows_affected: %d, last_insert_id: %d",
                                       <<rowsAffected, lastInsertId>>)>>)

\* the column scan loop of getTableInfo
ScanColumns(out) ==
    [i \in 1..Len(out) |->
        [Name |-> out[i].name, Type |-> out[i].type,
         NotNull |-> (out[i].notnull = 1), PrimaryKey |-> (out[i].pk = 1),
         DefaultValue |-> IF out[i].dflt_value.Valid
                          THEN [set |-> TRUE, v |-> out[i].dflt_value.String]
                          ELSE [set |-> FALSE]]]

\* the index scan loop without its prefix test (mutant)
ScanIndexes_KeepAll(out) == [i \in 1..Len(out) |-> out[i].name]
\* the index scan loop of getTableInfo: auto-generated indexes are left out
ScanIndexes(out) ==
    LET kept == SelectSeq(out, LAMBDA r : ~HasPrefix(r.name, PfxAutoindex))
    IN  [i \in 1..Len(kept) |-> kept[i].name]

\* fkRows.Scan into plain strings: a NULL cell cannot be converted
FkScanErr(out) ==
    IF \E i \in 1..Len(out) : ~out[i].to.Valid
    THEN "sql: Scan error on column index 4, name \"to\": converting NULL to string is unsupported"
    ELSE NoErr

\* the foreign-key scan loop of getTableInfo
ScanForeignKeys(out) ==
    [i \in 1..Len(out) |->
        [ID |-> out[i].id, Seq |-> out[i].seq, Table |-> out[i].table,
         From |-> out[i].from, To |-> out[i].to.String, OnUpdate |-> out[i].on_update,
         OnDelete |-> out[i].on_delete, Match |-> out[i].match]]

\* SQLiteDB.getTableInfo: three PRAGMA lookups with the table name spliced in
getTableInfo(db, tableName) ==
    LET ti == EnginePragma(db, "columns", tableName)
        il == EnginePragma(db, "indexes", tableName)
        fl == EnginePragma(db, "fks", tableName)
    IN  IF ti.err # NoErr THEN [ok |-> FALSE, err |-> ti.err]
        ELSE IF il.err # NoErr THEN [ok |-> FALSE, err |-> il.err]
        ELSE IF fl.err # NoErr THEN [ok |-> FALSE, err |-> fl.err]
        ELSE IF FkScanErr(fl.out) # NoErr THEN [ok |-> FALSE, err |-> FkScanErr(fl.out)]
        ELSE [ok |-> TRUE, err |-> NoErr,
              table |-> [Name |-> tableName, Columns |-> ScanColumns(ti.out),
                         Indexes |-> ScanIndexes(il.out),
                         ForeignKeys |-> ScanForeignKeys(fl.out)]]

\* the listing query of GetSchema:
\* SELECT name FROM sqlite_master WHERE type='table' AND name NOT LIKE 'sqlite_%'
ListTableNames(db) ==
    LET kept == SelectSeq(db.catalog, LAMBDA t : ~Like(PatInternal, t.name))
    IN  [i \in 1..Len(kept) |-> kept[i].name]

\* the reflection loop of GetSchema ending at the first failed table (mutant)
RECURSIVE ReflectAll_StopAtFailure(_, _)
ReflectAll_StopAtFailure(db, tableNames) ==
    IF tableNames = <<>> THEN <<>>
    ELSE LET info == getTableInfo(db, Head(tableNames))
         IN  IF info.ok THEN <<info.table>> \o ReflectAll_StopAtFailure(db, Tail(tableNames))
             ELSE <<>>

\* the reflection loop of GetSchema: a table whose getTableInfo fails is
\* logged and skipped
RECURSIVE ReflectAll(_, _)
ReflectAll(db, tableNames) ==
    IF tableNames = <<>> THEN <<>>
    ELSE LET info == getTableInfo(db, Head(tableNames))
         IN  (IF info.ok THEN <<info.table>> ELSE <<>>) \o ReflectAll(db, Tail(tableNames))

ReflectionErrors(db, tableNames) ==
    LET failed == SelectSeq(tableNames, LAMBDA n : ~getTableInfo(db, n).ok)
    IN  [i \in 1..Len(failed) |->
            LogLine("error", "Failed to get table info for table %s: %v",
                    <<failed[i], getTableInfo(db, failed[i]).err>>)]

SchemaErr == "failed to retrieve table information"
ListSql == "SELECT name FROM sqlite_master WHERE type='table' AND name NOT LIKE 'sqlite_%'"

\* the listing served from the catalog as it was when the database was opened
\* (mutant)
EngineList_AtOpen(db, fault) ==
    [openErr |-> IF fault = "submit" THEN "database is locked" ELSE NoErr,
     out |-> IF fault = "none"
             THEN ListTableNames([db EXCEPT !.catalog = <<UsersDef, SqliteSequenceDef, OrdersDef>>])
             ELSE <<>>,
     iterErr |-> IF fault = "iterate" THEN "disk I/O error" ELSE NoErr]

\* the listing query as the engine serves it; fault is what the engine does to
\* it: "none", "submit" (db.Query fails) or "iterate" (the cursor stops with
\* an error, which rows.Next() reports as the end of the rows)
EngineList(db, fault) ==
    [openErr |-> IF fault = "submit" THEN "database is locked" ELSE NoErr,
     out |-> IF fault = "none" THEN ListTableNames(db) ELSE <<>>,
     iterErr |-> IF fault = "iterate" THEN "disk I/O error" ELSE NoErr]

\* GetSchema without its rows.Err() check after the loop (mutant)
RowsErr_Ignored(listing) == NoErr
\* rows.Err() after the scan loop of GetSchema
RowsErr(listing) == listing.iterErr

\* SQLiteDB.GetSchema
GetSchema(db, cn, fault) ==
    LET debug == <<LogLine("debug", "Get database schema", <<>>)>>
        l == EngineList(db, fault)
        iterRaw == IF l.iterErr # NoErr THEN <<l.iterErr>> ELSE <<>>
    IN  IF l.openErr # NoErr
        THEN Returned(NilResult, SchemaErr,
                      Engine(<<Submission(ListSql, l.openErr)>>, <<l.openErr>>, <<>>),
                      db, cn,
                      debug \o <<LogLine("error", "Failed to retrieve table names: %v",
                                         l.openErr)>>)
        ELSE IF RowsErr(l) # NoErr
        THEN Returned(NilResult, SchemaErr,
                      Engine(<<Submission(ListSql, NoErr)>>, iterRaw, l.out),
                      db, cn,
                      debug \o <<LogLine("error", "Error during table name iteration: %v",
                                         RowsErr(l))>>)
        ELSE LET tableNames == l.out
                 tables == ReflectAll(db, tableNames)
             IN  Returned([some |-> TRUE, tables |-> tables], NoErr,
                          Engine(<<Submission(ListSql, NoErr)>>,
                                 iterRaw \o
                                 [i \in 1..Len(ReflectionErrors(db, tableNames)) |->
                                     ReflectionErrors(db, tableNames)[i].arg[2]],
                                 tableNames),
                          db, cn,
                          (debug \o ReflectionErrors(db, tableNames))
                          \o <<LogLine("info",
                                 "Successfully retrieved table information, table_count: %d",
                                 Len(tables))>>)

\* ------------------------------------------------ tool handlers (MCPHandler)
DigitStr == <<"0", "1", "2", "3", "4", "5", "6", "7", "8", "9">>
\* %d of an integer
RECURSIVE DecStr(_)
DecStr(n) ==
    IF n < 0 THEN "-" \o DecStr(0 - n)
    ELSE IF n < 10 THEN DigitStr[n + 1]
    ELSE DecStr(n \div 10) \o DigitStr[(n % 10) + 1]

\* %v of a row value
ValueStr(v) == IF v.k = "int" THEN DecStr(v.v) ELSE v.v

ErrorResult(text) == [IsError |-> TRUE, kind |-> "message", Text |-> text]
TextResult(kind, text) == [IsError |-> FALSE, kind |-> kind, Text |-> text]

\* the foreign-key line of formatTablesResponse
FkLine(fk) == ((fk.From \o " -> ") \o fk.Table) \o ("(" \o fk.To \o ")")
\* the clauses after the line, both written whatever the action (mutant)
FkNotes_Always(fk) ==
    <<" ON DELETE " \o fk.OnDelete, " ON UPDATE " \o fk.OnUpdate>>
\* the clauses formatTablesResponse appends to a foreign-key line
FkNotes(fk) ==
    (IF fk.OnDelete # "NO ACTION" THEN <<" ON DELETE " \o fk.OnDelete>> ELSE <<>>)
    \o (IF fk.OnUpdate # "NO ACTION" THEN <<" ON UPDATE " \o fk.OnUpdate>> ELSE <<>>)

\* formatTablesResponse
formatTablesResponse(tables) ==
    IF Len(tables) = 0 THEN TextResult("message", "No tables found in the database.")
    ELSE TextResult("tables",
        [title |-> "Database Tables:",
         tables |-> [t \in 1..Len(tables) |->
            [table |-> tables[t].Name,
             columns |-> [i \in 1..Len(tables[t].Columns) |->
                LET col == tables[t].Columns[i]
                IN  [name |-> col.Name, type |-> col.Type,
                     notes |-> ((IF col.NotNull THEN <<" NOT NULL">> ELSE <<>>)
                                \o (IF col.PrimaryKey THEN <<" PRIMARY KEY">> ELSE <<>>))
                                \o (IF col.DefaultValue.set
                                    THEN <<" DEFAULT " \o col.DefaultValue.v>> ELSE <<>>)]],
             indexes |-> tables[t].Indexes,
             foreignKeys |-> [i \in 1..Len(tables[t].ForeignKeys) |->
                LET fk == tables[t].ForeignKeys[i]
                IN  [line |-> FkLine(fk), notes |-> FkNotes(fk)]]]]])

\* a nil value written as the empty string (mutant)
ShownValue_Empty(value) == IF value = NullV THEN "" ELSE ValueStr(value)
\* the value formatQueryResponse writes after col=: nil becomes the placeholder
ShownValue(value) == IF value = NullV THEN "<NULL>" ELSE ValueStr(value)

\* the row loop of formatQueryResponse without its break (mutant)
ShownRows_All(result) == Len(result.Rows)
\* the rows the loop of formatQueryResponse writes before its break at i >= 10
ShownRows(result) == IF Len(result.Rows) > 10 THEN 10 ELSE Len(result.Rows)

\* formatQueryResponse: at most the first 10 rows are shown
formatQueryResponse(result) ==
    LET shown == ShownRows(result)
    IN  TextResult("query",
        [title |-> "Query Results:",
         columns |-> result.Columns,
         rowCount |-> DecStr(result.Count),
         data |-> IF result.Count > 0
                  THEN [i \in 1..shown |->
                          [label |-> "Row " \o DecStr(i),
                           pairs |-> [j \in 1..Len(result.Columns) |->
                              LET col == result.Columns[j]
                                  value == result.Rows[i][col]
                              IN  <<col, ShownValue(value)>>]]]
                  ELSE <<>>,
         truncated |-> result.Count > 0 /\ Len(result.Rows) > 10])

\* formatExecuteResponse
formatExecuteResponse(result) ==
    TextResult("execute",
        [title |-> "Execution Result:",
         rowsAffected |-> DecStr(result.RowsAffected),
         lastInsertId |-> IF result.LastInsertId > 0 THEN <<DecStr(result.LastInsertId)>> ELSE <<>>,
         message |-> result.Message])

\* a tool request: whether Params.Arguments is a map at all, and its "sql" entry
Request(hasArgs, sqlKind, sql) == [hasArgs |-> hasArgs, sqlKind |-> sqlKind, sql |-> sql]
Requests ==
    {Request(TRUE, "string", t) : t \in SqlTexts}
    \cup {Request(TRUE, "missing", <<>>), Request(TRUE, "number", <<>>),
          Request(FALSE, "missing", <<>>)}

\* a finished tool call: the request, whether the repository was called, what it
\* returned, and the tool response
Called(op, req, reached, ret, resp) ==
    [op |-> op, req |-> req, panicked |-> FALSE, reached |-> reached,
     engine |-> ret.engine, log |-> ret.log,
     result |-> ret.result, err |-> ret.err, resp |-> resp]
\* the single-value type assertion on an Arguments value that is no map panics
Panicked(op, req) == [op |-> op, req |-> req, panicked |-> TRUE, reached |-> FALSE]
NotCalled(db, cn) == Returned(NilResult, NoErr, NoEngine, db, cn, <<>>)

\* the text of the query tool's failure response
QueryFailedText(err) == "Query execution failed. Please check your SQL syntax and try again."

\* MCPHandler.GetSchema
HandleGetSchema(db, cn, fault) ==
    LET r == GetSchema(db, cn, fault)
    IN  [ret |-> r,
         call |-> Called("get_schema", Request(FALSE, "missing", <<>>), TRUE, r,
                    IF r.err # NoErr
                    THEN ErrorResult("Failed to retrieve table information. Please check your database connection.")
                    ELSE formatTablesResponse(r.result.tables))]

\* MCPHandler.Query
HandleQuery(db, cn, req) ==
    IF ~req.hasArgs THEN [ret |-> NotCalled(db, cn), call |-> Panicked("query", req)]
    ELSE IF req.sqlKind # "string" \/ req.sql = <<>>
    THEN [ret |-> NotCalled(db, cn),
          call |-> Called("query", req, FALSE, NotCalled(db, cn),
                          ErrorResult("SQL query parameter is required"))]
    ELSE LET r == Query(db, cn, req.sql)
         IN  [ret |-> r,
              call |-> Called("query", req, TRUE, r,
                         IF r.err # NoErr THEN ErrorResult(QueryFailedText(r.err))
                         ELSE formatQueryResponse(r.result))]

\* MCPHandler.Execute
HandleExecute(db, cn, req) ==
    IF ~req.hasArgs THEN [ret |-> NotCalled(db, cn), call |-> Panicked("execute", req)]
    ELSE IF req.sqlKind # "string"
    THEN [ret |-> NotCalled(db, cn),
          call |-> Called("execute", req, FALSE, NotCalled(db, cn),
                          ErrorResult("Missing or invalid 'sql' argument"))]
    ELSE LET r == Execute(db, cn, req.sql)
         IN  [ret |-> r,
              call |-> Called("execute", req, TRUE, r,
                         IF r.err # NoErr
                         THEN ErrorResult("Statement execution failed. Please check your SQL syntax and try again.")
                         ELSE formatExecuteResponse(r.result))]

\* ------------------------------------------------- the connection pool
\* NewSQLiteDB configures the pool of sql.DB: at most MaxOpenConns connections
\* open at once, at most MaxIdleConns of them kept idle.
MaxOpenConns == 25
MaxIdleConns == 5

InUse(p) == p.numOpen - p.free

\* a connection can be had without waiting: an idle one, or room to open one
Available(p) == p.free > 0 \/ p.numOpen < MaxOpenConns

Take(p) ==
    IF p.free > 0 THEN [p EXCEPT !.free = @ - 1]
    ELSE [p EXCEPT !.numOpen = @ + 1]

\* a connection comes back and nobody waits for it: kept idle, or closed
Put(p) ==
    IF p.free < MaxIdleConns THEN [p EXCEPT !.free = @ + 1]
    ELSE [p EXCEPT !.numOpen = @ - 1]

\* The followed caller: the tool it runs, the function it is in (top: Query,
\* Execute or GetSchema; info: getTableInfo), the cursors that function has
\* still to open, the tables GetSchema has still to reflect, and the cursors
\* each function has open.
MeIdle ==
    [op |-> "none", fn |-> "top", pc |-> "idle", cursors |-> 0, tables |-> 0,
     open |-> [top |-> 0, info |-> 0]]

Held(m) == m.open.top + m.open.info

\* rows.Next returns false (mutant: and leaves the cursor open)
AfterLastRow_StillOpen(n) == n

\* rows.Next returns false: the cursor closes itself and gives its connection back
AfterLastRow(n) == n - 1

\* the deferred Close calls of a returning function (mutant: there are none)
Deferred_Skipped(n) == 0

\* the cursors the deferred Close calls of a returning function have to close
Deferred(n) == n

\* db.Query returns a cursor on a connection
Granted(m) == [m EXCEPT !.pc = "hold", !.open[m.fn] = @ + 1]

OtherGranted(o, e) ==
    (o (-) SetToBag({e})) (+) SetToBag({[pc |-> "hold", held |-> e.held + 1]})

\* One connection comes back to the pool, the callers being m and o after the
\* release: it is handed to a caller that waits, if there is one.
Released(p, m, o) ==
    LET toMe == IF m.pc = "wait"
                THEN {[sqlDB |-> p, me |-> Granted(m), others |-> o]}
                ELSE {}
        toOther == {[sqlDB |-> p, me |-> m, others |-> OtherGranted(o, e)] :
                        e \in {w \in BagToSet(o) : w.pc = "wait"}}
    IN  IF toMe \cup toOther = {}
        THEN {[sqlDB |-> Put(p), me |-> m, others |-> o]}
        ELSE toMe \cup toOther

\* The server after NewSQLiteDB: Ping has opened one connection and put it back.
PoolAtOpen ==
    /\ sqlDB = [numOpen |-> 1, free |-> 1]
    /\ me = MeIdle
    /\ others = EmptyBag
\* --------------------------------------------------------- the server (Spec)
Db == [catalog |-> catalog, rows |-> rows, autoinc |-> autoinc]

\* the harness variables at rest
NoJournal == [clean |-> TRUE, lits |-> <<>>]
NoFmtIn == [fn |-> "none"]
NoFmtOut == [returned |-> FALSE]

\* The database the server is opened on: the fixture of the handler tests,
\* tables users and orders, no rows yet.
Init ==
    /\ catalog = <<UsersDef, SqliteSequenceDef, OrdersDef>>
    /\ rows = <<>>
    /\ autoinc = 0
    /\ conn = [lastRowid |-> 0, changes |-> 0]
    /\ call = [op |-> "none"]
    /\ clsIn = <<>>
    /\ clsOut = [returned |-> FALSE, value |-> FALSE]
    /\ inserted = NoJournal
    /\ fmtIn = NoFmtIn
    /\ fmtOut = NoFmtOut
    /\ PoolAtOpen

\* Each action is one tool call from request to response.  The guard on
\* autoinc bounds the rowids the engine hands out.
GetSchemaTool ==
    \E fault \in {"none", "submit", "iterate"} :
        \E h \in {HandleGetSchema(Db, conn, fault)} :
            /\ catalog' = h.ret.db.catalog
            /\ rows' = h.ret.db.rows
            /\ autoinc' = h.ret.db.autoinc
            /\ conn' = h.ret.conn
            /\ call' = h.call
            /\ UNCHANGED harnessVars

QueryTool ==
    \E req \in Requests :
        \E h \in {HandleQuery(Db, conn, req)} :
            /\ h.ret.db.autoinc <= MaxRowid
            /\ catalog' = h.ret.db.catalog
            /\ rows' = h.ret.db.rows
            /\ autoinc' = h.ret.db.autoinc
            /\ conn' = h.ret.conn
            /\ call' = h.call
            /\ UNCHANGED harnessVars

ExecuteTool ==
    \E req \in Requests :
        \E h \in {HandleExecute(Db, conn, req)} :
            /\ h.ret.db.autoinc <= MaxRowid
            /\ catalog' = h.ret.db.catalog
            /\ rows' = h.ret.db.rows
            /\ autoinc' = h.ret.db.autoinc
            /\ conn' = h.ret.conn
            /\ call' = h.call
            /\ UNCHANGED harnessVars

Next == GetSchemaTool \/ QueryTool \/ ExecuteTool

Spec == Init /\ [][Next]_vars

\* ----------------------------------------------- classifier harness (SpecCls)
\* Inputs: optional leading whitespace, a word in some mix of upper and lower
\* case, an optional remainder, optional trailing whitespace.
RECURSIVE WsRuns(_)
WsRuns(n) ==
    IF n = 0 THEN {<<>>}
    ELSE WsRuns(n - 1) \cup
         {<<c>> \o r : c \in {" ", "\n"}, r \in {x \in WsRuns(n - 1) : Len(x) = n - 1}}

KeywordWords == {ToUpper(k) : k \in {KwSelect, KwWith, KwExplain}}
OtherWords ==
    { <<"S","E","L","E","C">>, <<"S","E","L","E","C","T","S">>, <<"W","I","T">>,
      <<"E","X","P","L","A","I","M">>, <<"I","N","S","E","R","T">>,
      <<"S"," ","E","L","E","C","T">>, <<"-","-","S","E","L","E","C","T">>,
      <<";">>, <<>> }

\* the word with exactly the positions in lows written in lower case
Cased(word, lows) ==
    [i \in 1..Len(word) |-> IF i \in lows THEN ToLowerCh(word[i]) ELSE word[i]]

CasedWords ==
    {Cased(w, lows) : w \in KeywordWords, lows \in SUBSET (1..7)}
    \cup {Cased(w, lows) : w \in OtherWords, lows \in {{}, {1}, 1..7}}

Remainders == {<<>>, <<" ","1">>}

ClsInputs ==
    {lead \o w \o rest \o trail :
        lead \in WsRuns(MaxLead), w \in CasedWords,
        rest \in Remainders, trail \in WsRuns(MaxTrail)}

IdleCall == [op |-> "none"]

InitCls ==
    /\ catalog = <<>>
    /\ rows = <<>>
    /\ autoinc = 0
    /\ conn = [lastRowid |-> 0, changes |-> 0]
    /\ call = IdleCall
    /\ clsIn \in ClsInputs
    /\ clsOut = [returned |-> FALSE, value |-> FALSE]
    /\ inserted = NoJournal
    /\ fmtIn = NoFmtIn
    /\ fmtOut = NoFmtOut
    /\ PoolAtOpen

Classify ==
    /\ ~clsOut.returned
    /\ clsOut' = [returned |-> TRUE, value |-> isSelectQuery(clsIn)]
    /\ UNCHANGED <<catalog, rows, autoinc, conn, call, clsIn, inserted, fmtIn, fmtOut, poolVars>>

NextCls == Classify

SpecCls == InitCls /\ [][NextCls]_vars

\* ------------------------------------------------ round-trip harness (SpecRT)
\* Inserts through the execute tool and reads through the query tool on a
\* database that holds the empty table users, with other writes in between.
RtTexts ==
    { T_InsertA, T_InsertB, T_InsertNeg, T_InsertMissing, T_InsertThenBad, T_Update, T_Delete,
      T_SelectAll, T_SelectLower, T_WithInsert }
RtRequests == {Request(TRUE, "string", t) : t \in RtTexts}

\* whether the text is one INSERT statement
IsSingleInsert(sql) ==
    Len(EngineParse(sql)) = 1 /\ EngineParse(sql)[1].kind = "insert"

\* the journal after a tool call: a successful single-row insert through the
\* execute tool is appended; any other change of the rows spoils the journal
\* until the table is empty again
Journal(j, before, h) ==
    IF h.ret.db.rows = before.rows THEN j
    ELSE IF h.ret.db.rows = <<>> THEN NoJournal
    ELSE IF /\ j.clean
            /\ h.call.op = "execute" /\ h.call.reached /\ h.call.err = NoErr
            /\ IsSingleInsert(h.call.req.sql)
    THEN [j EXCEPT !.lits = Append(@, EngineParse(h.call.req.sql)[1].arg)]
    ELSE [clean |-> FALSE, lits |-> <<>>]

InitRT ==
    /\ catalog = <<UsersDef, SqliteSequenceDef>>
    /\ rows = <<>>
    /\ autoinc = 0
    /\ conn = [lastRowid |-> 0, changes |-> 0]
    /\ call = IdleCall
    /\ clsIn = <<>>
    /\ clsOut = [returned |-> FALSE, value |-> FALSE]
    /\ inserted = NoJournal
    /\ fmtIn = NoFmtIn
    /\ fmtOut = NoFmtOut
    /\ PoolAtOpen

RtExecute ==
    \E req \in RtRequests :
        \E h \in {HandleExecute(Db, conn, req)} :
            /\ h.ret.db.autoinc <= MaxRowid
            /\ catalog' = h.ret.db.catalog
            /\ rows' = h.ret.db.rows
            /\ autoinc' = h.ret.db.autoinc
            /\ conn' = h.ret.conn
            /\ call' = h.call
            /\ inserted' = Journal(inserted, Db, h)
            /\ UNCHANGED <<clsIn, clsOut, fmtIn, fmtOut, poolVars>>

RtQuery ==
    \E req \in RtRequests :
        \E h \in {HandleQuery(Db, conn, req)} :
            /\ h.ret.db.autoinc <= MaxRowid
            /\ catalog' = h.ret.db.catalog
            /\ rows' = h.ret.db.rows
            /\ autoinc' = h.ret.db.autoinc
            /\ conn' = h.ret.conn
            /\ call' = h.call
            /\ inserted' = Journal(inserted, Db, h)
            /\ UNCHANGED <<clsIn, clsOut, fmtIn, fmtOut, poolVars>>

NextRT == RtExecute \/ RtQuery

SpecRT == InitRT /\ [][NextRT]_vars

\* --------------------------------------------------- report harness (SpecFmt)
\* formatTablesResponse and formatQueryResponse on the values the repository
\* can hand them.

\* the ON DELETE / ON UPDATE actions PRAGMA foreign_key_list reports
FkActions == {"NO ACTION", "CASCADE", "SET NULL", "RESTRICT"}

\* foreign keys of a table orders, one per referencing column
FkOf(i, onUpdate, onDelete) ==
    [ID |-> i - 1, Seq |-> 0, Table |-> "users",
     From |-> <<"user_id", "owner_id", "buyer_id">>[i],
     To |-> "id", OnUpdate |-> onUpdate, OnDelete |-> onDelete, Match |-> "NONE"]
FkLists ==
    UNION { { [i \in 1..n |-> FkOf(i, acts[i][1], acts[i][2])] :
                acts \in [1..n -> FkActions \X FkActions] } : n \in 1..MaxFks }

\* the tables GetSchema returns for the users / orders database
ScenarioDb == [catalog |-> <<UsersDef, SqliteSequenceDef, OrdersDef>>, rows |-> <<>>, autoinc |-> 0]
ScenarioTables == ReflectAll(ScenarioDb, ListTableNames(ScenarioDb))

TablesInputs ==
    {<<>>, ScenarioTables}
    \cup { <<[Name |-> N_orders,
              Columns |-> ScanColumns(OrdersDef.columns),
              Indexes |-> <<>>, ForeignKeys |-> fks]>> : fks \in FkLists }

\* results as Query builds them: n rows, the name of row nullAt is NULL
ResultRow(i, nullAt) ==
    [id |-> IntV(i), name |-> IF i = nullAt THEN NullV ELSE TextV("a")]
QueryInputs ==
    { NewQueryResult(columns, [i \in 1..n |-> RowMap(columns,
                        [j \in 1..Len(columns) |-> ResultRow(i, nullAt)[columns[j]]])]) :
        columns \in {<<"id">>, <<"id", "name">>, <<"name", "id">>},
        n \in 0..MaxRows, nullAt \in {0, 1, 11} }

\* statement texts of every length up to MaxText: a statement repeated
SanitizeInputs ==
    { [i \in 1..n |-> t[((i - 1) % Len(t)) + 1]] :
        n \in 0..MaxText, t \in {T_SelectOverflow, T_InsertA} }

InitFmt ==
    /\ catalog = <<>>
    /\ rows = <<>>
    /\ autoinc = 0
    /\ conn = [lastRowid |-> 0, changes |-> 0]
    /\ call = IdleCall
    /\ clsIn = <<>>
    /\ clsOut = [returned |-> FALSE, value |-> FALSE]
    /\ inserted = NoJournal
    /\ \/ \E t \in TablesInputs : fmtIn = [fn |-> "tables", arg |-> t]
       \/ \E r \in QueryInputs : fmtIn = [fn |-> "query", arg |-> r]
       \/ \E q \in SanitizeInputs : fmtIn = [fn |-> "sanitize", arg |-> q]
    /\ fmtOut = NoFmtOut
    /\ PoolAtOpen

FormatTables ==
    /\ fmtIn.fn = "tables" /\ ~fmtOut.returned
    /\ fmtOut' = [returned |-> TRUE, value |-> formatTablesResponse(fmtIn.arg)]
    /\ UNCHANGED <<catalog, rows, autoinc, conn, call, clsIn, clsOut, inserted, fmtIn, poolVars>>

FormatQuery ==
    /\ fmtIn.fn = "query" /\ ~fmtOut.returned
    /\ fmtOut' = [returned |-> TRUE, value |-> formatQueryResponse(fmtIn.arg)]
    /\ UNCHANGED <<catalog, rows, autoinc, conn, call, clsIn, clsOut, inserted, fmtIn, poolVars>>

\* the text Query and Execute write to the debug log
Sanitize ==
    /\ fmtIn.fn = "sanitize" /\ ~fmtOut.returned
    /\ fmtOut' = [returned |-> TRUE, value |-> sanitizeQuery(fmtIn.arg)]
    /\ UNCHANGED <<catalog, rows, autoinc, conn, call, clsIn, clsOut, inserted, fmtIn, poolVars>>

NextFmt == FormatTables \/ FormatQuery \/ Sanitize

SpecFmt == InitFmt /\ [][NextFmt]_vars

\* --------------------------------------------------- schema harness (SpecSch)
\* DDL through the execute tool and get_schema on the users / orders database:
\* user-created indexes, a composite primary key, a composite foreign key and
\* a foreign key that names no parent column.
SchTexts ==
    { T_CreateIndexEmail, T_CreateIndexName, T_CreateIndexReserved,
      T_CreateOrderLines, T_CreateNotes, T_CreateOrders, T_DropOrders }
SchRequests == {Request(TRUE, "string", t) : t \in SchTexts}

InitSch ==
    /\ catalog = <<UsersDef, SqliteSequenceDef, OrdersDef>>
    /\ rows = <<>>
    /\ autoinc = 0
    /\ conn = [lastRowid |-> 0, changes |-> 0]
    /\ call = IdleCall
    /\ clsIn = <<>>
    /\ clsOut = [returned |-> FALSE, value |-> FALSE]
    /\ inserted = NoJournal
    /\ fmtIn = NoFmtIn
    /\ fmtOut = NoFmtOut
    /\ PoolAtOpen

SchExecute ==
    \E req \in SchRequests :
        \E h \in {HandleExecute(Db, conn, req)} :
            /\ catalog' = h.ret.db.catalog
            /\ rows' = h.ret.db.rows
            /\ autoinc' = h.ret.db.autoinc
            /\ conn' = h.ret.conn
            /\ call' = h.call
            /\ UNCHANGED harnessVars

SchGetSchema ==
    \E fault \in {"none", "submit", "iterate"} :
        \E h \in {HandleGetSchema(Db, conn, fault)} :
            /\ catalog' = h.ret.db.catalog
            /\ rows' = h.ret.db.rows
            /\ autoinc' = h.ret.db.autoinc
            /\ conn' = h.ret.conn
            /\ call' = h.call
            /\ UNCHANGED harnessVars

NextSch == SchExecute \/ SchGetSchema

SpecSch == InitSch /\ [][NextSch]_vars

\* ------------------------------------------------- pool harness (SpecPool)
\* MaxCallers callers use the server at once.  One of them is followed through
\* its call statement by statement; the others are kept as a bag of
\* [pc, held]: run (between two cursors, holding some), wait (queued for a
\* connection) or hold (iterating a cursor); a caller holding nothing and
\* queued for nothing is not in the bag.
Tools == {"query", "execute", "get_schema"}

\* A tool call begins.  Query and Execute open one cursor unless the request
\* or the statement policy stops them first; GetSchema lists the tables and
\* reflects t of them.
MeStart ==
    /\ me.pc = "idle"
    /\ \E op \in Tools, reach \in BOOLEAN, t \in 0..MaxSchemaTables :
        /\ op = "get_schema" => reach
        /\ op # "get_schema" => t = 0
        /\ me' = [me EXCEPT !.op = op, !.fn = "top", !.pc = "run",
                            !.cursors = IF reach THEN 1 ELSE 0, !.tables = t]
    /\ UNCHANGED <<sqlDB, others, serverVars>>

\* db.Query / db.Exec: take a connection, or queue for one
MeOpen ==
    /\ me.pc = "run"
    /\ me.cursors > 0
    /\ IF Available(sqlDB)
       THEN sqlDB' = Take(sqlDB) /\ me' = Granted(me)
       ELSE sqlDB' = sqlDB /\ me' = [me EXCEPT !.pc = "wait"]
    /\ UNCHANGED <<others, serverVars>>

\* the loop over the rows ends (rows.Next returns false), or Exec returns
MeEndOfRows ==
    /\ me.pc = "hold"
    /\ \E n \in {IF me.op = "execute" THEN me.open[me.fn] - 1
                 ELSE AfterLastRow(me.open[me.fn])} :
        \E m \in {[me EXCEPT !.open[me.fn] = n, !.cursors = @ - 1, !.pc = "run"]} :
            \E s \in (IF n < me.open[me.fn] THEN Released(sqlDB, m, others)
                      ELSE {[sqlDB |-> sqlDB, me |-> m, others |-> others]}) :
                /\ sqlDB' = s.sqlDB
                /\ me' = s.me
                /\ others' = s.others
    /\ UNCHANGED serverVars

\* the function returns an error: rows.Columns or rows.Scan fails in Query,
\* rows.Err in GetSchema, rows.Scan in getTableInfo, the cursor still open;
\* or db.Query itself fails, whose connection goes back before the return
MeError ==
    /\ me.pc = "hold"
    /\ me.op # "execute"
    /\ me' = [me EXCEPT !.cursors = 0, !.pc = "ret",
                        !.tables = IF me.fn = "top" THEN 0 ELSE @]
    /\ UNCHANGED <<sqlDB, others, serverVars>>

\* GetSchema calls getTableInfo for the next table: three PRAGMA cursors
MeCallInfo ==
    /\ me.pc = "run"
    /\ me.cursors = 0
    /\ me.fn = "top"
    /\ me.tables > 0
    /\ me' = [me EXCEPT !.fn = "info", !.cursors = 3, !.tables = @ - 1]
    /\ UNCHANGED <<sqlDB, others, serverVars>>

\* the function reaches its return statement
MeEndFunction ==
    /\ me.pc = "run"
    /\ me.cursors = 0
    /\ ~(me.fn = "top" /\ me.tables > 0)
    /\ me' = [me EXCEPT !.pc = "ret"]
    /\ UNCHANGED <<sqlDB, others, serverVars>>

\* defer rows.Close() on a cursor that is still open
MeDeferredClose ==
    /\ me.pc = "ret"
    /\ Deferred(me.open[me.fn]) > 0
    /\ \E m \in {[me EXCEPT !.open[me.fn] = @ - 1]} :
        \E s \in Released(sqlDB, m, others) :
            /\ sqlDB' = s.sqlDB
            /\ me' = s.me
            /\ others' = s.others
    /\ UNCHANGED serverVars

\* getTableInfo returns into the loop of GetSchema; the tool call returns
MeReturn ==
    /\ me.pc = "ret"
    /\ Deferred(me.open[me.fn]) = 0
    /\ me' = IF me.fn = "info"
             THEN [me EXCEPT !.fn = "top", !.pc = "run"]
             ELSE [me EXCEPT !.op = "none", !.pc = "idle"]
    /\ UNCHANGED <<sqlDB, others, serverVars>>

AtRest == MaxCallers - 1 - BagCardinality(others)

\* another caller asks for a cursor
OtherOpen ==
    /\ \E e \in {r \in {[pc |-> "run", held |-> 0]} : AtRest > 0}
                \cup {r \in BagToSet(others) : r.pc = "run"} :
        \E o \in {IF e.held = 0 THEN others ELSE others (-) SetToBag({e})} :
            IF Available(sqlDB)
            THEN /\ sqlDB' = Take(sqlDB)
                 /\ others' = o (+) SetToBag({[pc |-> "hold", held |-> e.held + 1]})
            ELSE /\ sqlDB' = sqlDB
                 /\ others' = o (+) SetToBag({[pc |-> "wait", held |-> e.held]})
    /\ UNCHANGED <<me, serverVars>>

\* another caller's cursor closes: at the end of its rows, or by the deferred
\* Close when its function returns
OtherClose ==
    /\ \E e \in {r \in BagToSet(others) : r.pc \in {"hold", "run"} /\ r.held > 0} :
        \E n \in {IF e.pc = "hold" THEN AfterLastRow(e.held) ELSE e.held - 1} :
            \E o \in {IF n = 0 THEN others (-) SetToBag({e})
                      ELSE (others (-) SetToBag({e}))
                               (+) SetToBag({[pc |-> "run", held |-> n]})} :
                \E s \in (IF n < e.held THEN Released(sqlDB, me, o)
                          ELSE {[sqlDB |-> sqlDB, me |-> me, others |-> o]}) :
                    /\ sqlDB' = s.sqlDB
                    /\ me' = s.me
                    /\ others' = s.others
    /\ UNCHANGED serverVars

NextPool ==
    \/ MeStart \/ MeOpen \/ MeEndOfRows \/ MeError \/ MeCallInfo
    \/ MeEndFunction \/ MeDeferredClose \/ MeReturn
    \/ OtherOpen \/ OtherClose

SpecPool == Init /\ [][NextPool]_vars

\* Every step of the followed call that needs no connection is taken in the
\* end, every open cursor of the others is closed in the end, and the pool is
\* fair: a caller that can be handed a connection again and again is handed one.
MeStep ==
    MeOpen \/ MeEndOfRows \/ MeCallInfo \/ MeEndFunction \/ MeDeferredClose \/ MeReturn

MeGranted == OtherClose /\ me.pc = "wait" /\ me'.pc = "hold"

SpecPoolLive ==
    /\ Init
    /\ [][NextPool]_vars
    /\ WF_vars(MeStep)
    /\ WF_vars(OtherClose)
    /\ SF_vars(MeGranted)
\* ===================================================================== claims

\* C1: isSelectQuery is total and returns TRUE exactly when the text, with its
\* leading whitespace skipped and letters compared without regard to case,
\* begins with SELECT, WITH or EXPLAIN; FALSE otherwise (also for the empty
\* and the whitespace-only text).
BeginsReadOnly(s) ==
    \E i \in 1..(Len(s) + 1) :
        /\ \A j \in 1..(i - 1) : IsSpace(s[j])
        /\ i <= Len(s) => ~IsSpace(s[i])
        /\ \E k \in {KwSelect, KwWith, KwExplain} :
              /\ i + Len(k) - 1 <= Len(s)
              /\ \A j \in 1..Len(k) : ToUpperCh(s[i + j - 1]) = k[j]
C1_ClassifierMatchesPrefixRule ==
    clsOut.returned => (clsOut.value \in BOOLEAN /\ clsOut.value = BeginsReadOnly(clsIn))
C1_Witness ==
    /\ clsOut.returned /\ clsOut.value = TRUE
    /\ Len(clsIn) > 0 /\ IsSpace(clsIn[1]) /\ IsSpace(clsIn[Len(clsIn)])
    /\ ToUpper(clsIn) # clsIn
C1_WitnessBlank ==
    clsOut.returned /\ clsOut.value = FALSE /\ Len(clsIn) > 0 /\ \A i \in 1..Len(clsIn) : IsSpace(clsIn[i])

\* calls of the last step, by tool
QueryCalled == call.op = "query" /\ call.reached
ExecuteCalled == call.op = "execute" /\ call.reached
SchemaCalled == call.op = "get_schema" /\ call.reached
Names(seq) == {seq[i] : i \in 1..Len(seq)}

\* C2: whenever Query is called with a text the classifier reports as not
\* read-only, it returns the policy error and no QueryResult, nothing is
\* submitted to the engine, and catalog and rows are as before the call.
C2_QueryRejectsWrites ==
    [][(call'.op = "query" /\ call'.reached /\ ~isSelectQuery(call'.req.sql))
        => /\ call'.err = PolicyQueryErr
           /\ ~call'.result.some
           /\ call'.engine.submitted = <<>>
           /\ dbVars' = dbVars]_vars
\* an insert that the engine would have accepted, refused by Query
C2_Witness ==
    /\ QueryCalled /\ call.req.sql = T_InsertA
    /\ call.err = PolicyQueryErr
    /\ HasTable(Db, N_users) /\ rows = <<>>

\* C3: whenever Execute is called with a text the classifier reports as
\* read-only, it returns the policy error and no ExecuteResult, and nothing is
\* submitted to the engine.
C3_ExecuteRejectsReads ==
    (ExecuteCalled /\ isSelectQuery(call.req.sql))
    => /\ call.err = PolicyExecuteErr
       /\ ~call.result.some
       /\ call.engine.submitted = <<>>
C3_Witness ==
    /\ ExecuteCalled /\ call.req.sql = T_SelectAll
    /\ call.err = PolicyExecuteErr
    /\ HasTable(Db, N_users) /\ rows # <<>>

\* C4: a call of the query tool, accepted or rejected, leaves the stored rows
\* and the catalog as they were before the call.
C4_QueryLeavesDatabaseUnchanged ==
    [][call'.op = "query" => dbVars' = dbVars]_vars

\* C5: when the engine rejects a statement submitted by Query or Execute, the
\* error returned and the text of the tool response are the fixed messages of
\* that tool, whatever the engine's error text; and no error text the engine
\* raised during a call is handed to the caller.
Rejected ==
    /\ call.op \in {"query", "execute"} /\ call.reached
    /\ \E i \in 1..Len(call.engine.submitted) : call.engine.submitted[i].err # NoErr
C5_EngineErrorTextNotForwarded ==
    /\ Rejected =>
          /\ call.err = (IF call.op = "query" THEN "query execution failed"
                         ELSE "statement execution failed")
          /\ call.resp = ErrorResult(
                IF call.op = "query"
                THEN "Query execution failed. Please check your SQL syntax and try again."
                ELSE "Statement execution failed. Please check your SQL syntax and try again.")
    /\ (call.op \in {"query", "execute"} /\ call.reached) =>
          \A i \in 1..Len(call.engine.raw) :
             /\ call.err # call.engine.raw[i]
             /\ call.resp.kind = "message" => call.resp.Text # call.engine.raw[i]
C5_Witness ==
    /\ Rejected /\ call.op = "query"
    /\ call.engine.raw = <<"near \"FROM\": syntax error">>
C5_WitnessOtherText ==
    /\ Rejected /\ call.op = "query"
    /\ call.engine.raw = <<"no such table: missing">>

\* C6: every QueryResult that Query returns has Count equal to the number of
\* its Rows.
C6_CountIsRowCount ==
    (QueryCalled /\ call.result.some) => call.result.Count = Len(call.result.Rows)
C6_Witness ==
    QueryCalled /\ call.result.some /\ Len(call.result.Rows) = 2
C6_WitnessEmpty ==
    QueryCalled /\ call.result.some /\ call.result.Rows = <<>> /\ call.result.Columns # <<>>

\* C7: in every QueryResult, each row holds one value per entry of Columns,
\* each the value the engine returned at that column position.
C7_RowsHaveDeclaredColumns ==
    (QueryCalled /\ call.result.some) =>
        \A i \in 1..Len(call.result.Rows) :
            /\ Cardinality(DOMAIN call.result.Rows[i]) = Len(call.result.Columns)
            /\ \A j \in 1..Len(call.result.Columns) :
                  call.result.Rows[i][call.result.Columns[j]] = call.engine.out[i][j]

\* C8: GetSchema returns, for every user table of the catalog with N declared
\* columns, a Table entry of that name with exactly those N columns in
\* declaration order.
C8_EveryUserTableReflected ==
    (SchemaCalled /\ call.err = NoErr) =>
        \A t \in Names(catalog) :
            ~IsInternalName(t.name) =>
                \E e \in Names(call.result.tables) :
                    /\ e.Name = t.name
                    /\ Len(e.Columns) = Len(t.columns)
                    /\ \A i \in 1..Len(t.columns) : e.Columns[i].Name = t.columns[i].name

\* C9: the listing step of GetSchema yields every table of the catalog that is
\* not one of the engine's internal tables.
C9_ListingHasEveryUserTable ==
    (SchemaCalled /\ call.err = NoErr) =>
        \A t \in Names(catalog) :
            ~IsInternalName(t.name) => t.name \in Names(call.engine.out)

\* C10: when the listing succeeds GetSchema returns success, and the tables it
\* returns are exactly the listed tables whose reflection succeeded, in
\* listing order; a listed table whose reflection fails is the only one left out.
ListingSucceeded ==
    /\ SchemaCalled
    /\ call.engine.submitted[1].err = NoErr
    /\ "disk I/O error" \notin Names(call.engine.raw)
C10_FailedTableAloneOmitted ==
    ListingSucceeded =>
        /\ call.err = NoErr /\ call.result.some /\ ~call.resp.IsError
        /\ LET reflected == SelectSeq(call.engine.out,
                                LAMBDA n : EnginePragma(Db, "columns", n).err = NoErr)
           IN  /\ Len(call.result.tables) = Len(reflected)
               /\ \A i \in 1..Len(reflected) : call.result.tables[i].Name = reflected[i]
\* a table whose reflection fails is listed before one whose reflection succeeds
C10_Witness ==
    /\ ListingSucceeded
    /\ \E i, j \in 1..Len(call.engine.out) :
          /\ i < j
          /\ EnginePragma(Db, "columns", call.engine.out[i]).err # NoErr
          /\ EnginePragma(Db, "columns", call.engine.out[j]).err = NoErr


\* C11: when the listing of table names fails, on submission or during
\* iteration, GetSchema returns the error and no tables, and the get_schema
\* tool responds with the fixed failure message and IsError set.
ListingFailed ==
    /\ SchemaCalled
    /\ \/ call.engine.submitted[1].err # NoErr
       \/ "disk I/O error" \in Names(call.engine.raw)
C11_ListingFailureIsFatal ==
    ListingFailed =>
        /\ call.err = "failed to retrieve table information"
        /\ ~call.result.some
        /\ call.resp = ErrorResult("Failed to retrieve table information. Please check your database connection.")
\* the listing fails during iteration on a database that holds user tables
C11_Witness ==
    /\ ListingFailed
    /\ call.engine.submitted[1].err = NoErr
    /\ HasTable(Db, N_users) /\ call.resp.IsError
C11_WitnessSubmit ==
    /\ ListingFailed
    /\ call.engine.submitted[1].err = "database is locked"
    /\ call.resp.IsError

\* C12: after k successful single-row inserts through Execute into the
\* initially empty table users, with no other write, Query selecting all rows
\* of users returns Count = k and row i carries the literals of insert i.
C12_InsertedRowsComeBack ==
    (QueryCalled /\ call.req.sql = T_SelectAll /\ inserted.clean) =>
        /\ call.err = NoErr /\ call.result.some
        /\ call.result.Count = Len(inserted.lits)
        /\ Len(call.result.Rows) = Len(inserted.lits)
        /\ \A i \in 1..Len(inserted.lits) :
              /\ call.result.Rows[i]["name"] = inserted.lits[i].name
              /\ call.result.Rows[i]["email"] = inserted.lits[i].email
\* two inserts, one of them with a NULL email, then the select
C12_Witness ==
    /\ QueryCalled /\ call.req.sql = T_SelectAll /\ inserted.clean
    /\ Len(inserted.lits) = 2 /\ call.result.some /\ call.result.Count = 2
    /\ inserted.lits[1] # inserted.lits[2]

\* the statements of the text the execute tool ran
Ran == EngineParse(call.req.sql)
ExecuteSucceeded == ExecuteCalled /\ call.err = NoErr

\* C13: every successful Execute of a statement that inserts exactly one row
\* with an engine-assigned rowid returns RowsAffected = 1 and LastInsertId > 0,
\* and its Message reports the same rows-affected number.
C13_InsertReportsOneRowAndId ==
    (ExecuteSucceeded /\ Len(Ran) = 1 /\ Ran[1].kind = "insert") =>
        /\ call.result.RowsAffected = 1
        /\ call.result.LastInsertId > 0
        /\ call.result.Message.arg = call.result.RowsAffected
        /\ call.resp.Text.rowsAffected = DecStr(1)
\* the second insert of a session: the rowid it reports is 2
C13_Witness ==
    /\ ExecuteSucceeded /\ Len(Ran) = 1 /\ Ran[1].kind = "insert"
    /\ call.result.LastInsertId = 2 /\ Len(rows) = 2

\* C14: a successful Execute of a statement that inserts no row (update,
\* delete, DDL) returns LastInsertId = 0, whatever calls came before it.
C14_NoInsertNoInsertId ==
    (ExecuteSucceeded /\ Len(Ran) = 1 /\ Ran[1].kind \in {"update", "delete", "create", "drop"})
        => call.result.LastInsertId = 0

\* C15: the schema is never cached.  Every successful GetSchema returns
\* tables of the catalog as it is at that moment: each returned entry is a
\* table of the present catalog with the present columns, and users and
\* orders are returned exactly when the catalog holds them, whatever Execute
\* created or dropped before; and a GetSchema that directly follows a
\* successful GetSchema returns an equal result.
SchemaOk == call.op = "get_schema" /\ call.err = NoErr
SchemaFresh ==
    /\ \A e \in Names(call.result.tables) :
          \E t \in Names(catalog) :
              /\ t.name = e.Name
              /\ Len(e.Columns) = Len(t.columns)
              /\ \A i \in 1..Len(t.columns) : e.Columns[i].Name = t.columns[i].name
    /\ \A n \in {N_users, N_orders} :
          HasTable(Db, n) <=> \E e \in Names(call.result.tables) : e.Name = n
C15_WitnessCreated ==
    /\ SchemaOk /\ Len(catalog) > 3 /\ HasTable(Db, N_orders)
    /\ catalog[Len(catalog)].name = N_orders
    /\ \E e \in Names(call.result.tables) : e.Name = N_orders

\* a request that carries no non-empty string under "sql"
NoSqlString(req) == ~req.hasArgs \/ req.sqlKind # "string" \/ req.sql = <<>>

\* C16: a query request without a non-empty string "sql" (missing, not a
\* string, empty, or no argument mapping at all) gets a result with IsError
\* set and the text "SQL query parameter is required", which is not the
\* execution-failed text, and nothing is submitted to the engine.
C16_QueryRequiresSql ==
    (call.op = "query" /\ NoSqlString(call.req)) =>
        /\ ~call.panicked
        /\ call.resp = ErrorResult("SQL query parameter is required")
        /\ call.resp.Text # QueryFailedText(call.err)
        /\ call.engine.submitted = <<>>

\* C17: an execute request whose "sql" is missing or not a string (or that
\* has no argument mapping at all) gets a result with IsError set and the text
\* "Missing or invalid 'sql' argument", which is not the execution-failed
\* text, and nothing is submitted to the engine.
C17_ExecuteRequiresSql ==
    (call.op = "execute" /\ (~call.req.hasArgs \/ call.req.sqlKind # "string")) =>
        /\ ~call.panicked
        /\ call.resp = ErrorResult("Missing or invalid 'sql' argument")
        /\ call.resp.Text # "Statement execution failed. Please check your SQL syntax and try again."
        /\ call.engine.submitted = <<>>

\* C18: an execute request whose "sql" is the empty string gets a failure
\* result, never an execution report, and nothing is submitted to the engine.
C18_ExecuteRejectsEmptySql ==
    (call.op = "execute" /\ call.req.hasArgs /\ call.req.sqlKind = "string"
                         /\ call.req.sql = <<>>) =>
        /\ call.resp.IsError
        /\ call.resp.kind # "execute"
        /\ call.engine.submitted = <<>>

\* C19: the schema report renders each foreign key as
\* 'fromColumn -> table(toColumn)', followed by ' ON DELETE <action>' exactly
\* when the on-delete action is not NO ACTION and by ' ON UPDATE <action>'
\* exactly when the on-update action is not NO ACTION; for the users / orders
\* database the report names both tables, the column email and the line
\* 'user_id -> users(id)'.
TablesReturned == fmtOut.returned /\ fmtIn.fn = "tables" /\ fmtIn.arg # <<>>
C19_ForeignKeyLines ==
    TablesReturned =>
        LET report == fmtOut.value.Text.tables
        IN  /\ Len(report) = Len(fmtIn.arg)
            /\ \A t \in 1..Len(fmtIn.arg) :
                  /\ Len(report[t].foreignKeys) = Len(fmtIn.arg[t].ForeignKeys)
                  /\ \A i \in 1..Len(fmtIn.arg[t].ForeignKeys) :
                        LET fk == fmtIn.arg[t].ForeignKeys[i]
                            written == report[t].foreignKeys[i]
                            del == " ON DELETE " \o fk.OnDelete
                            upd == " ON UPDATE " \o fk.OnUpdate
                        IN  /\ written.line = fk.From \o " -> " \o fk.Table \o "(" \o fk.To \o ")"
                            /\ (del \in Names(written.notes)) <=> (fk.OnDelete # "NO ACTION")
                            /\ (upd \in Names(written.notes)) <=> (fk.OnUpdate # "NO ACTION")
                            /\ Names(written.notes) \subseteq {del, upd}
                            /\ Len(written.notes) = Cardinality(Names(written.notes))
            /\ fmtIn.arg = ScenarioTables =>
                  /\ {report[t].table : t \in 1..Len(report)} = {N_users, N_orders}
                  /\ \E t \in 1..Len(report) : \E c \in Names(report[t].columns) : c.name = "email"
                  /\ \E t \in 1..Len(report) :
                        \E f \in Names(report[t].foreignKeys) :
                            f.line = "user_id -> users(id)" /\ f.notes = <<>>
\* two foreign keys: one with both clauses, one with the ON UPDATE clause only
C19_Witness ==
    /\ TablesReturned /\ Len(fmtIn.arg[1].ForeignKeys) = 2
    /\ fmtIn.arg[1].ForeignKeys[1].OnDelete = "CASCADE"
    /\ fmtIn.arg[1].ForeignKeys[1].OnUpdate = "SET NULL"
    /\ fmtIn.arg[1].ForeignKeys[2].OnDelete = "NO ACTION"
    /\ fmtIn.arg[1].ForeignKeys[2].OnUpdate = "RESTRICT"
    /\ Len(fmtOut.value.Text.tables[1].foreignKeys[2].notes) = 1
C19_WitnessScenario ==
    TablesReturned /\ fmtIn.arg = ScenarioTables /\ Len(fmtOut.value.Text.tables) = 2

\* C20: the query report shows exactly min(Count, 10) data rows, each
\* listing its values in declared column order; the truncation notice is there
\* exactly when the result has more than 10 rows; and the Row Count it prints
\* is the full Count.
QueryReturned == fmtOut.returned /\ fmtIn.fn = "query"
C20_QueryReportRows ==
    QueryReturned =>
        LET result == fmtIn.arg
            report == fmtOut.value.Text
        IN  /\ Len(report.data) = (IF result.Count < 10 THEN result.Count ELSE 10)
            /\ \A i \in 1..Len(report.data) :
                  /\ report.data[i].label = "Row " \o DecStr(i)
                  /\ Len(report.data[i].pairs) = Len(result.Columns)
                  /\ \A j \in 1..Len(result.Columns) :
                        LET value == result.Rows[i][result.Columns[j]]
                        IN  report.data[i].pairs[j] =
                                <<result.Columns[j],
                                  CASE value.k = "null" -> "<NULL>"
                                    [] value.k = "int" -> DecStr(value.v)
                                    [] value.k = "text" -> value.v>>
            /\ report.truncated <=> (result.Count > 10)
            /\ report.rowCount = DecStr(result.Count)
            /\ report.columns = result.Columns
\* a result of 12 rows, with a NULL in a row that is shown
C20_Witness ==
    /\ QueryReturned /\ fmtIn.arg.Count = 12
    /\ fmtOut.value.Text.truncated /\ Len(fmtOut.value.Text.data) = 10
    /\ \E p \in Names(fmtOut.value.Text.data[1].pairs) : p[2] = "<NULL>"
C20_WitnessTen ==
    /\ QueryReturned /\ fmtIn.arg.Count = 10
    /\ ~fmtOut.value.Text.truncated /\ Len(fmtOut.value.Text.data) = 10

\* C21: the execute report has the 'Last Insert ID' line exactly when the
\* ExecuteResult's LastInsertId is not zero, and always has the rows-affected
\* line and the summary message.
C21_LastInsertIdLine ==
    ExecuteSucceeded =>
        /\ call.resp.kind = "execute"
        /\ (call.resp.Text.lastInsertId # <<>>) <=> (call.result.LastInsertId # 0)
        /\ call.resp.Text.rowsAffected = DecStr(call.result.RowsAffected)
        /\ call.resp.Text.message = call.result.Message

IterationFailed ==
    /\ QueryCalled
    /\ call.engine.submitted # <<>> /\ call.engine.submitted[1].err = NoErr
    /\ call.engine.raw # <<>>
C23_NoPartialResult ==
    IterationFailed => (call.err = "query execution failed" /\ ~call.result.some)

\* the catalog's table of a name
CatalogTable(name) == CHOOSE t \in Names(catalog) : t.name = name

\* C24: for every reflected table, Indexes is the sequence of the catalog's
\* index names for the table, in the catalog's order, without the indexes the
\* engine generated itself; an index a user created is never left out and a
\* generated one is never listed.
C24_UserIndexesInOrder ==
    SchemaOk =>
        \A e \in Names(call.result.tables) :
            HasTable(Db, e.Name) =>
                LET created == SelectSeq(CatalogTable(e.Name).indexes, LAMBDA x : x.origin = "c")
                IN  /\ Len(e.Indexes) = Len(created)
                    /\ \A i \in 1..Len(created) : e.Indexes[i] = created[i].name
\* users with two created indexes listed ahead of its generated one
C24_Witness ==
    /\ SchemaOk
    /\ \E e \in Names(call.result.tables) :
          /\ e.Name = N_users
          /\ e.Indexes = <<N_idx_users_name, N_idx_users_email>>
          /\ Len(CatalogTable(N_users).indexes) = 3

\* C25: for every user table that declares foreign keys, composite keys and
\* keys without an explicit parent column included, GetSchema returns the
\* table with one ForeignKey entry per foreign-key row of the catalog, in the
\* catalog's order, with distinct (id, seq) pairs.
C25_ForeignKeysReflected ==
    SchemaOk =>
        \A t \in Names(catalog) :
            (t.fks # <<>> /\ ~IsInternalName(t.name)) =>
                \E e \in Names(call.result.tables) :
                    /\ e.Name = t.name
                    /\ Len(e.ForeignKeys) = Len(t.fks)
                    /\ \A i \in 1..Len(t.fks) :
                          /\ e.ForeignKeys[i].ID = t.fks[i].id
                          /\ e.ForeignKeys[i].Seq = t.fks[i].seq
                          /\ e.ForeignKeys[i].From = t.fks[i].from
                          /\ e.ForeignKeys[i].Table = t.fks[i].table
                    /\ \A i, j \in 1..Len(t.fks) :
                          i # j => <<e.ForeignKeys[i].ID, e.ForeignKeys[i].Seq>>
                                   # <<e.ForeignKeys[j].ID, e.ForeignKeys[j].Seq>>

\* C30: for every reflected table, a Column's PrimaryKey flag is set exactly
\* when the column is part of the table's primary key, every column of a
\* composite primary key included, and its NotNull flag is set exactly when
\* the catalog marks the column not-null.
C30_ColumnFlags ==
    SchemaOk =>
        \A e \in Names(call.result.tables) :
            HasTable(Db, e.Name) =>
                LET t == CatalogTable(e.Name)
                IN  /\ Len(e.Columns) = Len(t.columns)
                    /\ \A i \in 1..Len(t.columns) :
                          /\ e.Columns[i].PrimaryKey <=> (t.columns[i].pk > 0)
                          /\ e.Columns[i].NotNull <=> (t.columns[i].notnull = 1)

\* C26: the statement text Query and Execute log is the statement itself when
\* it is at most 100 characters long, and otherwise its first 100 characters
\* followed by the marker '...'.
Sanitized == fmtOut.returned /\ fmtIn.fn = "sanitize"
C26_WitnessWhole ==
    Sanitized /\ Len(fmtIn.arg) = 100 /\ fmtOut.value = fmtIn.arg

\* C29: when Execute returns an error, the policy error or the
\* execution-failed error, the rows and the catalog are as they were before
\* the call, for every text, texts of several statements included.
C29_FailedExecuteChangesNothing ==
    [][(call'.op = "execute" /\ call'.reached /\ call'.err # NoErr)
        => dbVars' = dbVars]_vars

\* connections held by the other callers
RECURSIVE HeldBy(_, _)
HeldBy(o, S) ==
    IF S = {} THEN 0
    ELSE LET e == CHOOSE x \in S : TRUE
         IN  e.held * CopiesIn(e, o) + HeldBy(o, S \ {e})
OthersHeld == HeldBy(others, BagToSet(others))

\* C27: under any interleaving of concurrent calls the pool never has more
\* than 25 connections open, the connections in use are exactly those behind
\* the open cursors of calls in flight, a call that has returned holds none,
\* and with no call in flight no connection is in use.
C27_PoolBoundedAndReleased ==
    /\ sqlDB.numOpen <= MaxOpenConns
    /\ sqlDB.free >= 0 /\ sqlDB.free <= sqlDB.numOpen
    /\ InUse(sqlDB) = Held(me) + OthersHeld
    /\ me.pc = "idle" => Held(me) = 0
    /\ (me.pc = "idle" /\ others = EmptyBag) => InUse(sqlDB) = 0
\* every connection is out, a Query call queues for one
C27_Witness ==
    /\ sqlDB.numOpen = MaxOpenConns /\ sqlDB.free = 0
    /\ me.op = "query" /\ me.pc = "wait"
\* a Query call that failed while iterating is returning, its cursor closed
\* by the deferred Close, after the pool had been full
C27_WitnessReturned ==
    /\ me.op = "query" /\ me.pc = "ret" /\ me.cursors = 0 /\ Held(me) = 0
    /\ others = EmptyBag /\ InUse(sqlDB) = 0 /\ sqlDB.free = MaxIdleConns

\* no caller has more than one cursor open, none queues for a connection
\* while it holds one
OneCursorEach ==
    /\ Held(me) <= 1
    /\ me.pc = "wait" => Held(me) = 0
    /\ \A e \in BagToSet(others) : e.held <= 1 /\ (e.pc = "wait" => e.held = 0)

\* C28: no call holds a pooled connection while it waits for another, each
\* call has at most one cursor open at any moment, and under a fair pool a
\* call in flight returns in the end, however many callers there are.
C28_NoHoldAndWaitAndReturns ==
    /\ []OneCursorEach
    /\ (me.pc # "idle") ~> (me.pc = "idle")
\* GetSchema queues for the connection of a PRAGMA cursor, the pool exhausted
\* by the other callers, one of which queues as well
C28_Witness ==
    /\ me.op = "get_schema" /\ me.fn = "info" /\ me.pc = "wait"
    /\ InUse(sqlDB) = MaxOpenConns
    /\ \E e \in BagToSet(others) : e.pc = "wait"
====
